---- MODULE Spec2Model ----
(***************************************************************************)
(* A model of the word-search puzzle: the Rabin-Karp matcher               *)
(* (rabin_karp.py), the grid engine (grid.py) and the game's selection     *)
(* handling (game.py).                                                     *)
(*                                                                         *)
(* A character is a one-character string, a Python str is a sequence of    *)
(* characters, a coordinate is a pair <<row, col>> (0-based as in the      *)
(* code), and a list is a sequence.                                        *)
(***************************************************************************)
EXTENDS Integers, Sequences, FiniteSets, TLC

VARIABLES
    \* RabinKarp.search, one call in progress (rabin_karp.py:38-78), and the
    \* value contains_unwanted_pattern returned
    rk_pc, pattern, text, text_hash, rk_i, matches, rk_result,
    \* WordGrid (grid.py:10-19) and the position of generate() in its loops
    pc, size, word_list, word_count, grid, placed_words, word_positions,
    found_positions, incorrect_positions,
    selected_words, word_index, placed, attempts,
    \* WordSearchGame (game.py:44-59): its fields, whether it is inside
    \* _start_level waiting for generate() (game_pc), and the clock it reads
    state, current_level, found_words, selecting, selection_start,
    selection_end, game_pc, now,
    \* one call of _get_selection_path and the list it returned
    path_pc, selected_positions,
    \* history: the listed words whose recorded cells a selection has verified
    confirmed,
    \* history: the time of the last mark_word_incorrect of each coordinate,
    \* and the coordinate lists _place_word has recorded since _initialize_grid
    stamped, committed,
    \* WordSearchGame (game.py:44-52): the player's name, the time the level
    \* was started at and the scores and completion times of the game
    player_name, start_time, total_score, level_scores, level_completion_times,
    \* Leaderboard.scores (leaderboard.py:13)
    scores,
    \* history: the rank _complete_game last passed to add_score, and how
    \* often each entry has been passed to add_score
    passed_rank, added

rkVars == <<rk_pc, pattern, text, text_hash, rk_i, matches, rk_result>>
gridVars == <<pc, size, word_list, word_count, grid, placed_words,
              word_positions, found_positions, incorrect_positions,
              selected_words, word_index, placed, attempts>>
gameVars == <<state, current_level, found_words, selecting, selection_start,
              selection_end, game_pc, now, path_pc, selected_positions,
              confirmed>>
histVars == <<stamped, committed>>
scoreVars == <<total_score, level_scores, level_completion_times>>
sessionVars == <<player_name, start_time, scoreVars, scores, passed_rank,
                 added>>
vars == <<rkVars, gridVars, gameVars, histVars, sessionVars>>

-----------------------------------------------------------------------------
(* Bounds of the model.                                                     *)

\* Letters of the search alphabet used for the inputs of search().
NumSearchLetters == 3
\* Longest pattern and longest text given to search().
MaxPatternLen == 3
MaxTextLen == 4
\* Letters of the alphabet and longest text given to
\* contains_unwanted_pattern.
NumUnwantedLetters == 4
MaxUnwantedLen == 4
\* The fill step draws from the first NumFillLetters letters of `letters'.
NumFillLetters == 1
\* Largest row/column index a selection gesture may name.
MaxCoord == 5
\* Cells outside the grid a mouse position may resolve to.
OutsideCells == 1
\* Longest coordinate list given to mark_word_found and mark_word_incorrect.
MaxMarkLen == 2
\* The clock stops at MaxTime milliseconds.
MaxTime == 760
\* Levels started one after another.
MaxLevels == 2
\* Games that reach the leaderboard in a session, and the time in
\* milliseconds at which the clock of a session stops.
MaxGames == 2
MaxSessionTime == 400000
\* Calls of add_score on one leaderboard.
MaxAdds == 101

-----------------------------------------------------------------------------
(* Characters and strings.                                                  *)

letters == <<"A", "B", "C", "D", "E", "F", "G", "H", "I", "J", "K", "L", "M",
             "N", "O", "P", "Q", "R", "S", "T", "U", "V", "W", "X", "Y", "Z">>

lowercase == <<"a", "b", "c", "d", "e", "f", "g", "h", "i", "j", "k", "l", "m",
               "n", "o", "p", "q", "r", "s", "t", "u", "v", "w", "x", "y", "z">>

\* The empty marker of a cell during construction.
EMPTY == " "

None == <<>>

IsLower(ch) == \E k \in 1..26 : lowercase[k] = ch

Chars == {letters[k] : k \in 1..26} \cup {lowercase[k] : k \in 1..26} \cup {EMPTY}

\* Python's ord() on the characters the program handles.
ord_table ==
    [ch \in Chars |->
        IF \E k \in 1..26 : letters[k] = ch
        THEN 64 + (CHOOSE k \in 1..26 : letters[k] = ch)
        ELSE IF IsLower(ch) THEN 96 + (CHOOSE k \in 1..26 : lowercase[k] = ch)
        ELSE 32]

ord(ch) == ord_table[ch]

\* str.upper() of one character.
upper_table ==
    [ch \in Chars |->
        IF IsLower(ch) THEN letters[CHOOSE j \in 1..26 : lowercase[j] = ch]
        ELSE ch]

\* str.upper()
upper(s) == [k \in 1..Len(s) |-> upper_table[s[k]]]

\* s[::-1]
reversed(s) == [k \in 1..Len(s) |-> s[Len(s) + 1 - k]]

\* x in lst
In(x, lst) == \E k \in 1..Len(lst) : lst[k] = x

RECURSIVE SeqsUpTo(_, _)
SeqsUpTo(S, n) ==
    IF n = 0 THEN {<<>>}
    ELSE LET shorter == SeqsUpTo(S, n - 1)
         IN shorter \cup {Append(s, x) : s \in {t \in shorter : Len(t) = n - 1}, x \in S}

-----------------------------------------------------------------------------
(* RabinKarp (rabin_karp.py).                                               *)

base == 256
prime == 101

RECURSIVE hash_loop(_, _, _, _)
hash_loop(s, length, k, hash_value) ==
    IF k > length THEN hash_value
    ELSE hash_loop(s, length, k + 1, (hash_value * base + ord(s[k])) % prime)

_hash(s, length) == hash_loop(s, length, 1, 0)

\* pow(b, e, m)
RECURSIVE pow(_, _, _)
pow(b, e, m) == IF e = 0 THEN 1 % m ELSE (b * pow(b, e - 1, m)) % m

\* The leading character is not taken out before the shift.
_rolling_hash_keeping_old(old_hash, old_char, new_char, length) ==
    LET shifted == (old_hash * base + ord(new_char)) % prime
    IN (shifted + prime) % prime

_rolling_hash(old_hash, old_char, new_char, length) ==
    LET h == pow(base, length - 1, prime)
        removed == (old_hash - ord(old_char) * h) % prime
        shifted == (removed * base + ord(new_char)) % prime
    IN (shifted + prime) % prime

\* text[i:i + pattern_len] == pattern, i 0-based
window_equals(p, t, i) == SubSeq(t, i + 1, i + Len(p)) = p

\* if not pattern or not text or len(pattern) > len(text): return []
search_rejects(p, t) == p = <<>> \/ t = <<>> \/ Len(p) > Len(t)

\* The state of search() after the first window: the loop is about to run
\* with i = 1.
search_first(p, t) ==
    LET pattern_hash == _hash(p, Len(p))
        th == _hash(t, Len(p))
    IN [i |-> 1,
        text_hash |-> th,
        matches |-> IF pattern_hash = th /\ window_equals(p, t, 0)
                    THEN <<0>> ELSE <<>>]

\* The hash comparison alone, without the comparison of the characters.
window_matches_hash_only(p, t, i, th) == _hash(p, Len(p)) = th

\* Whether window i is reported: the hashes agree and the characters agree.
window_matches(p, t, i, th) == _hash(p, Len(p)) = th /\ window_equals(p, t, i)

\* One iteration of `for i in range(1, text_len - pattern_len + 1)'.
search_next(p, t, st) ==
    LET th == _rolling_hash(st.text_hash, t[st.i], t[st.i + Len(p)], Len(p))
    IN [i |-> st.i + 1,
        text_hash |-> th,
        matches |-> IF window_matches(p, t, st.i, th)
                    THEN Append(st.matches, st.i) ELSE st.matches]

search_loop_done(p, t, i) == i > Len(t) - Len(p)

RECURSIVE search_run(_, _, _)
search_run(p, t, st) ==
    IF search_loop_done(p, t, st.i) THEN st.matches
    ELSE search_run(p, t, search_next(p, t, st))

search(p, t) ==
    IF search_rejects(p, t) THEN <<>>
    ELSE search_run(p, t, search_first(p, t))

contains_pattern(p, t) == Len(search(p, t)) > 0

unwanted_patterns ==
    << <<"T", "H", "E">>, <<"A", "N", "D">>, <<"F", "O", "R">>,
       <<"A", "R", "E">>, <<"B", "U", "T">>, <<"N", "O", "T">>,
       <<"Y", "O", "U">>, <<"A", "L", "L">> >>

\* The patterns searched in the text as it is given.
contains_unwanted_pattern_as_given(t) ==
    \E k \in 1..Len(unwanted_patterns) :
        contains_pattern(unwanted_patterns[k], t)

contains_unwanted_pattern(t) ==
    \E k \in 1..Len(unwanted_patterns) :
        contains_pattern(unwanted_patterns[k], upper(t))

-----------------------------------------------------------------------------
(* search() as a process: one action per step of the call.                  *)

\* The inputs of search() are drawn from the first NumSearchLetters of these;
\* "ADB" and "DAA" have the same hash.
search_alphabet == <<"A", "D", "B", "T", "C">>
SearchLetters == {search_alphabet[k] : k \in 1..NumSearchLetters}

RkIdle ==
    /\ rk_pc = "idle" /\ pattern = <<>> /\ text = <<>>
    /\ text_hash = 0 /\ rk_i = 0 /\ matches = <<>> /\ rk_result = FALSE

\* search(pattern, text) is called: the guard and the first window.
SearchCall ==
    /\ rk_pc = "called"
    /\ IF search_rejects(pattern, text)
       THEN /\ rk_pc' = "returned"
            /\ matches' = <<>>
            /\ UNCHANGED <<text_hash, rk_i>>
       ELSE LET st == search_first(pattern, text)
            IN /\ rk_pc' = "loop"
               /\ rk_i' = st.i
               /\ text_hash' = st.text_hash
               /\ matches' = st.matches
    /\ UNCHANGED <<pattern, text, rk_result, gridVars, gameVars, histVars>>
    /\ UNCHANGED sessionVars

\* One iteration of the rolling loop.
SearchStep ==
    /\ rk_pc = "loop"
    /\ ~search_loop_done(pattern, text, rk_i)
    /\ LET st == search_next(pattern, text,
                             [i |-> rk_i, text_hash |-> text_hash,
                              matches |-> matches])
       IN /\ rk_i' = st.i
          /\ text_hash' = st.text_hash
          /\ matches' = st.matches
    /\ UNCHANGED <<rk_pc, pattern, text, rk_result, gridVars, gameVars, histVars>>
    /\ UNCHANGED sessionVars

\* return matches
SearchReturn ==
    /\ rk_pc = "loop"
    /\ search_loop_done(pattern, text, rk_i)
    /\ rk_pc' = "returned"
    /\ UNCHANGED <<pattern, text, text_hash, rk_i, matches, rk_result, gridVars,
                   gameVars, histVars>>
    /\ UNCHANGED sessionVars

-----------------------------------------------------------------------------
(* WordGrid (grid.py).                                                      *)

directions == << <<0, 1>>, <<1, 0>>, <<1, 1>>, <<0, -1>>,
                 <<-1, 0>>, <<-1, -1>>, <<1, -1>>, <<-1, 1>> >>

max_attempts == 100

Rows == 0..(size - 1)

\* 0 <= row < self.size and 0 <= col < self.size
in_bounds(row, col) == 0 <= row /\ row < size /\ 0 <= col /\ col < size

\* The cell of letter i (0-based) of a word anchored at (start_row, start_col).
cell_of(start_row, start_col, direction, i) ==
    <<start_row + i * direction[1], start_col + i * direction[2]>>

\* The letters a placement writes, as a map from cell to letter.
written(word, start_row, start_col, direction) ==
    [p \in {cell_of(start_row, start_col, direction, i - 1) : i \in 1..Len(word)} |->
        word[CHOOSE i \in 1..Len(word) :
                 cell_of(start_row, start_col, direction, i - 1) = p]]

\* g with the word's letters written into it.
with_word(g, word, start_row, start_col, direction) ==
    LET w == written(word, start_row, start_col, direction)
    IN [r \in Rows |-> [c \in Rows |->
            IF <<r, c>> \in DOMAIN w THEN w[<<r, c>>] ELSE g[r][c]]]

\* The string read from (row, col) along (dr, dc) while the cells are inside
\* the grid and not empty.
RECURSIVE run_text(_, _, _, _, _)
run_text(g, row, col, dr, dc) ==
    IF in_bounds(row, col) /\ g[row][col] # EMPTY
    THEN <<g[row][col]>> \o run_text(g, row + dr, col + dc, dr, dc)
    ELSE <<>>

\* Only the run that starts in the corner (0, 0) is read.
_check_direction_for_unwanted_words_from_corner(g, direction) ==
    LET t == run_text(g, 0, 0, direction[1], direction[2])
    IN /\ ~(Len(t) < 3 \/ In(t, placed_words))
       /\ contains_unwanted_pattern(t)

_check_direction_for_unwanted_words(g, direction) ==
    \E start_row \in Rows, start_col \in Rows :
        LET t == run_text(g, start_row, start_col, direction[1], direction[2])
        IN /\ ~(Len(t) < 3 \/ In(t, placed_words))
           /\ contains_unwanted_pattern(t)

\* Only the direction the word is written along is checked.
_creates_unwanted_overlap_along_word(word, start_row, start_col, direction) ==
    LET temp_grid == with_word(grid, word, start_row, start_col, direction)
    IN _check_direction_for_unwanted_words(temp_grid, direction)

_creates_unwanted_overlap(word, start_row, start_col, direction) ==
    LET temp_grid == with_word(grid, word, start_row, start_col, direction)
    IN \E k \in 1..Len(directions) :
           _check_direction_for_unwanted_words(temp_grid, directions[k])

\* The word's last cell is inside the grid.
fits(word, start_row, start_col, direction) ==
    LET end_row == start_row + (Len(word) - 1) * direction[1]
        end_col == start_col + (Len(word) - 1) * direction[2]
    IN ~(end_row < 0 \/ end_row >= size \/ end_col < 0 \/ end_col >= size)

\* The letter comparison left out: a cell in use never blocks a placement.
conflicts_never(word, start_row, start_col, direction) == FALSE

\* Some cell of the word holds another letter.
conflicts(word, start_row, start_col, direction) ==
    \E i \in 1..Len(word) :
        LET p == cell_of(start_row, start_col, direction, i - 1)
        IN grid[p[1]][p[2]] # EMPTY /\ grid[p[1]][p[2]] # word[i]

_can_place_word(word, start_row, start_col, direction) ==
    /\ fits(word, start_row, start_col, direction)
    /\ ~conflicts(word, start_row, start_col, direction)
    /\ ~_creates_unwanted_overlap(word, start_row, start_col, direction)

\* The coordinate list _place_word records.
positions_of(word, start_row, start_col, direction) ==
    [i \in 1..Len(word) |-> cell_of(start_row, start_col, direction, i - 1)]

\* d with d[key] = value
dict_set(d, key, value) ==
    [k \in DOMAIN d \cup {key} |-> IF k = key THEN value ELSE d[k]]

\* lst[i] raises IndexError unless -len(lst) <= i < len(lst); a negative index
\* counts from the end.
index_ok(i, n) == -n <= i /\ i < n
py_index(i, n) == IF i < 0 THEN i + n ELSE i

\* self.grid[row][col]
cell(g, row, col) == g[py_index(row, size)][py_index(col, size)]

\* The letters read along a list of coordinates.
letters_at(g, positions) ==
    [k \in 1..Len(positions) |-> cell(g, positions[k][1], positions[k][2])]

\* The bounds check without its upper limits.
position_in_bounds_lower_only(row, col) == 0 <= row /\ 0 <= col

\* if 0 <= row < self.size and 0 <= col < self.size, in is_word_at_positions
position_in_bounds(row, col) == 0 <= row /\ row < size /\ 0 <= col /\ col < size

\* The loop over the coordinates returns False at the first one that fails
\* the bounds check: whether none does.
all_in_bounds(positions) ==
    \A k \in 1..Len(positions) :
        position_in_bounds(positions[k][1], positions[k][2])

\* The loop over the coordinates raises IndexError: a coordinate indexed
\* before the loop returns is no index of the grid.
is_word_at_raises(positions) ==
    \E k \in 1..Len(positions) :
        /\ \A j \in 1..k : position_in_bounds(positions[j][1], positions[j][2])
        /\ ~(index_ok(positions[k][1], size) /\ index_ok(positions[k][2], size))

\* The comparison of the lists reduced to the comparison of their lengths.
_verify_word_positions_length_only(word, positions) ==
    IF word \notin DOMAIN word_positions THEN FALSE
    ELSE Len(positions) = Len(word_positions[word])

\* The comparison with the reversed list left out.
_verify_word_positions_forward_only(word, positions) ==
    IF word \notin DOMAIN word_positions THEN FALSE
    ELSE LET word_pos == word_positions[word]
         IN Len(positions) = Len(word_pos) /\ positions = word_pos

_verify_word_positions(word, positions) ==
    IF word \notin DOMAIN word_positions THEN FALSE
    ELSE LET word_pos == word_positions[word]
         IN /\ Len(positions) = Len(word_pos)
            /\ (positions = word_pos \/ positions = reversed(word_pos))

\* The value is_word_at_positions returns (when it does not raise).
is_word_at_positions(positions) ==
    IF positions = <<>> THEN FALSE
    ELSE IF ~all_in_bounds(positions) \/ is_word_at_raises(positions) THEN FALSE
    ELSE LET word == letters_at(grid, positions)
             word_upper == upper(word)
             word_reverse == reversed(word_upper)
         IN \E k \in 1..Len(placed_words) :
                /\ (Len(search(placed_words[k], word_upper)) > 0
                    \/ Len(search(placed_words[k], word_reverse)) > 0)
                /\ _verify_word_positions(placed_words[k], positions)

get_word_list == placed_words

-----------------------------------------------------------------------------
(* generate() as a process: pc is its position.                             *)
(*   "new"      constructed, generate() not yet called                      *)
(*   "sample"   _initialize_grid done, _place_words about to sample         *)
(*   "placing"  inside the while loop of the word selected_words[word_index]*)
(*   "fill"     _place_words done, _fill_empty_cells about to run           *)
(*   "ready"    generate() has returned                                     *)

\* random.sample(lst, k): k entries at distinct places of lst, in any order.
samples(lst, k) ==
    {[i \in 1..k |-> lst[f[i]]] :
        f \in {g \in [1..k -> 1..Len(lst)] :
                  \A a, b \in 1..k : a # b => g[a] # g[b]}}

\* The larger of the two taken for the smaller.
min_larger(a, b) == IF a < b THEN b ELSE a

min(a, b) == IF a < b THEN a ELSE b

\* WordGrid(size, word_list, word_count), for one of the given configurations.
GridConstructed(configs) ==
    /\ pc = "new"
    /\ \E cfg \in configs :
          /\ size = cfg.size
          /\ word_list = cfg.word_list
          /\ word_count = cfg.word_count
    /\ grid = <<>>
    /\ placed_words = <<>>
    /\ word_positions = <<>>
    /\ found_positions = {}
    /\ incorrect_positions = <<>>
    /\ selected_words = <<>>
    /\ word_index = 0
    /\ placed = FALSE
    /\ attempts = 0

\* generate() is called: _initialize_grid.
_initialize_grid ==
    /\ pc = "new"
    /\ pc' = "sample"
    /\ grid' = [r \in Rows |-> [c \in Rows |-> EMPTY]]
    /\ placed_words' = <<>>
    /\ word_positions' = <<>>
    /\ found_positions' = {}
    /\ committed' = <<>>
    /\ UNCHANGED <<size, word_list, word_count, incorrect_positions,
                   selected_words, word_index, placed, attempts>>
    /\ UNCHANGED <<rkVars, gameVars, stamped>>
    /\ UNCHANGED sessionVars

\* _place_words draws its sample and enters the loop over the words.
SampleWords ==
    /\ pc = "sample"
    /\ IF min(word_count, Len(word_list)) < 0
       THEN \* random.sample raises ValueError: the sample size is negative
            pc' = "error" /\ UNCHANGED <<word_index, selected_words>>
       ELSE \E sample \in samples(word_list, min(word_count, Len(word_list))) :
               IF sample = <<>>
               THEN pc' = "fill" /\ word_index' = 0 /\ selected_words' = <<>>
               ELSE pc' = "placing" /\ word_index' = 1 /\ selected_words' = sample
    /\ placed' = FALSE
    /\ attempts' = 0
    /\ UNCHANGED <<size, word_list, word_count, grid, placed_words,
                   word_positions, found_positions, incorrect_positions>>
    /\ UNCHANGED <<rkVars, gameVars, histVars>>
    /\ UNCHANGED sessionVars

\* word = word.upper()
current_word == upper(selected_words[word_index])

\* _place_word: the letters are written and the coordinate list recorded.
_place_word(word, start_row, start_col, direction) ==
    /\ grid' = with_word(grid, word, start_row, start_col, direction)
    /\ word_positions' =
           dict_set(word_positions, word,
                    positions_of(word, start_row, start_col, direction))

\* The loop condition off by one: a 101st attempt is made.
keep_trying_once_more == ~placed /\ attempts <= max_attempts

\* while not placed and attempts < max_attempts
keep_trying == ~placed /\ attempts < max_attempts

\* One pass of the while loop.
Attempt(row, col, direction) ==
    /\ pc = "placing"
    /\ keep_trying
    /\ IF _can_place_word(current_word, row, col, direction)
       THEN /\ _place_word(current_word, row, col, direction)
            /\ placed' = TRUE
            /\ committed' =
                   Append(committed,
                          positions_of(current_word, row, col, direction))
       ELSE UNCHANGED <<grid, word_positions, placed, committed>>
    /\ attempts' = attempts + 1
    /\ UNCHANGED <<pc, size, word_list, word_count, placed_words,
                   found_positions, incorrect_positions, selected_words,
                   word_index>>
    /\ UNCHANGED <<rkVars, gameVars, stamped>>
    /\ UNCHANGED sessionVars

\* random.randint(0, self.size - 1) raises ValueError: the range is empty.
AttemptRaises ==
    /\ pc = "placing"
    /\ keep_trying
    /\ pc' = "error"
    /\ UNCHANGED <<size, word_list, word_count, grid, placed_words,
                   word_positions, found_positions, incorrect_positions,
                   selected_words, word_index, placed, attempts>>
    /\ UNCHANGED <<rkVars, gameVars, histVars>>
    /\ UNCHANGED sessionVars

PlaceAttempt ==
    IF size - 1 < 0
    THEN AttemptRaises
    ELSE \E row \in Rows, col \in Rows, k \in 1..Len(directions) :
             Attempt(row, col, directions[k])

\* The while loop of a word is left: the word is listed if it was placed,
\* and the for loop goes on to the next word or ends.
EndWord ==
    /\ pc = "placing"
    /\ ~keep_trying
    /\ placed_words' = IF placed THEN Append(placed_words, current_word)
                                 ELSE placed_words
    /\ IF word_index < Len(selected_words)
       THEN /\ pc' = "placing"
            /\ word_index' = word_index + 1
            /\ UNCHANGED selected_words
       ELSE \* _place_words returns and its locals are gone
            /\ pc' = "fill"
            /\ word_index' = 0
            /\ selected_words' = <<>>
    /\ placed' = FALSE
    /\ attempts' = 0
    /\ UNCHANGED <<size, word_list, word_count, grid, word_positions,
                   found_positions, incorrect_positions>>
    /\ UNCHANGED <<rkVars, gameVars, histVars>>
    /\ UNCHANGED sessionVars

\* The test for the empty marker left out: every cell is written.
fill_targets_all == Rows \X Rows

\* The row loop stopping one row early.
fill_targets_short ==
    {p \in (0..(size - 2)) \X Rows : grid[p[1]][p[2]] = EMPTY}

\* The cells the fill step writes: for row in range(size), for col in
\* range(size), if the cell is empty.
fill_targets == {p \in Rows \X Rows : grid[p[1]][p[2]] = EMPTY}

\* _fill_empty_cells, each empty cell getting one of the first n letters.
_fill_empty_cells(n) ==
    /\ pc = "fill"
    /\ pc' = "ready"
    /\ LET empty == fill_targets
       IN \E choice \in [empty -> {letters[k] : k \in 1..n}] :
              grid' = [r \in Rows |-> [c \in Rows |->
                          IF <<r, c>> \in empty THEN choice[<<r, c>>]
                          ELSE grid[r][c]]]
    /\ UNCHANGED <<size, word_list, word_count, placed_words, word_positions,
                   found_positions, incorrect_positions, selected_words,
                   word_index, placed, attempts>>
    /\ UNCHANGED <<rkVars, gameVars, histVars>>
    /\ UNCHANGED sessionVars

Fill == _fill_empty_cells(NumFillLetters)

-----------------------------------------------------------------------------
(* The parts of the state a specification leaves alone.                     *)

\* WordSearchGame as constructed, no call in progress.
GameIdle ==
    /\ state = "START_SCREEN" /\ current_level = 1 /\ found_words = {}
    /\ selecting = FALSE /\ selection_start = None /\ selection_end = None
    /\ game_pc = "idle" /\ now = 0 /\ confirmed = {}

PathIdle == path_pc = "idle" /\ selected_positions = <<>>

\* Nothing marked and nothing placed yet.
HistIdle == stamped = <<>> /\ committed = <<>>

\* The name, scores and times as __init__ and _reset_game leave them, and an
\* empty leaderboard.
SessionIdle ==
    /\ player_name = <<>> /\ start_time = 0 /\ total_score = 0
    /\ level_scores = <<>> /\ level_completion_times = <<>>
    /\ scores = <<>> /\ passed_rank = "" /\ added = <<>>

\* The same with a name entered.
SessionNamed ==
    /\ player_name = <<"A">> /\ start_time = 0 /\ total_score = 0
    /\ level_scores = <<>> /\ level_completion_times = <<>>
    /\ scores = <<>> /\ passed_rank = "" /\ added = <<>>

\* self.grid = None: no WordGrid exists.
GridNone ==
    /\ pc = "none" /\ size = 0 /\ word_list = <<>> /\ word_count = 0
    /\ grid = <<>> /\ placed_words = <<>> /\ word_positions = <<>>
    /\ found_positions = {} /\ incorrect_positions = <<>>
    /\ selected_words = <<>> /\ word_index = 0 /\ placed = FALSE
    /\ attempts = 0

-----------------------------------------------------------------------------
(* SpecGrid: one WordGrid is constructed and generated.                     *)

BAT == <<"B", "A", "T">>
TOP == <<"T", "O", "P">>
NOT == <<"N", "O", "T">>
GO == <<"G", "O">>
UP == <<"U", "P">>

GridConfigs ==
    {[size |-> 1, word_list |-> <<BAT>>, word_count |-> 1],
     [size |-> 2, word_list |-> <<>>, word_count |-> 1],
     [size |-> 3, word_list |-> <<NOT>>, word_count |-> 1],
     [size |-> 3, word_list |-> <<BAT, TOP, TOP>>, word_count |-> 2]}

InitGrid ==
    RkIdle /\ GameIdle /\ PathIdle /\ HistIdle /\ SessionIdle /\ GridConstructed(GridConfigs)

NextGrid ==
    \/ _initialize_grid
    \/ SampleWords
    \/ PlaceAttempt
    \/ EndWord
    \/ Fill

SpecGrid == InitGrid /\ [][NextGrid]_vars

-----------------------------------------------------------------------------
(* SpecDenylist: one WordGrid is generated from a source that holds words   *)
(* with a denylisted word in them, read forward (NOT, KNOT, not) or         *)
(* backward (TON, TONE), next to a word without one (BAT).                  *)

TON == <<"T", "O", "N">>
KNOT == <<"K", "N", "O", "T">>
TONE == <<"T", "O", "N", "E">>
not_lower == <<"n", "o", "t">>
NO == <<"N", "O">>
TAB == <<"T", "A", "B">>

DenylistConfigs ==
    {[size |-> 3, word_list |-> <<NOT, TON, BAT>>, word_count |-> 3],
     [size |-> 3, word_list |-> <<not_lower, BAT>>, word_count |-> 2],
     [size |-> 4, word_list |-> <<KNOT, TONE>>, word_count |-> 2]}

InitDenylist ==
    RkIdle /\ GameIdle /\ PathIdle /\ HistIdle /\ SessionIdle
        /\ GridConstructed(DenylistConfigs)

SpecDenylist == InitDenylist /\ [][NextGrid]_vars

\* SpecCrossing: neither word holds a denylisted word, but NO followed by
\* the T of TAB spells one.
CrossingConfigs ==
    {[size |-> 3, word_list |-> <<NO, TAB>>, word_count |-> 2]}

InitCrossing ==
    RkIdle /\ GameIdle /\ PathIdle /\ HistIdle /\ SessionIdle
        /\ GridConstructed(CrossingConfigs)

SpecCrossing == InitCrossing /\ [][NextGrid]_vars

-----------------------------------------------------------------------------
(* SpecConfig: one WordGrid is constructed with any size from -1 to 2, a    *)
(* word source of 0 to 2 words and any word_count from -1 to 2, and         *)
(* generated.                                                               *)

ConfigChoices ==
    {[size |-> n, word_list |-> source, word_count |-> k] :
        n \in {-1, 0, 1, 2},
        source \in {<<>>, <<GO>>, <<GO, UP>>},
        k \in {-1, 0, 1, 2}}

InitConfig ==
    RkIdle /\ GameIdle /\ PathIdle /\ HistIdle /\ SessionIdle /\ GridConstructed(ConfigChoices)

SpecConfig == InitConfig /\ [][NextGrid]_vars

-----------------------------------------------------------------------------
(* WordGrid after generate(): the marks and the point queries               *)
(* (grid.py:209-262).  The clock `now' is time.time() in milliseconds.      *)
(* is_position_found, get_letter, get_word_list and is_word_at_positions    *)
(* change nothing: they are operators on the state, and a call of one of    *)
(* them is a step that leaves every variable as it is.                      *)

\* 500ms = 0.5 seconds
expiry == 500

\* (row, col) in self.found_positions
is_position_found(row, col) == <<row, col>> \in found_positions

get_letter(row, col) ==
    IF 0 <= row /\ row < size /\ 0 <= col /\ col < size
    THEN grid[row][col]
    ELSE None

\* The comparison taking an entry of exactly 500 ms for an old one.
positions_to_remove_from_500 ==
    {position \in DOMAIN incorrect_positions :
        now - incorrect_positions[position] >= expiry}

\* if current_time - timestamp > 0.5
positions_to_remove ==
    {position \in DOMAIN incorrect_positions :
        now - incorrect_positions[position] > expiry}

\* The incorrect map after `del self.incorrect_positions[position]' for
\* every position to remove.
purged ==
    [position \in DOMAIN incorrect_positions \ positions_to_remove |->
        incorrect_positions[position]]

\* The value is_position_incorrect returns.
is_position_incorrect(row, col) == <<row, col>> \in DOMAIN purged

\* Each cell added if it is missing and taken out if it is there.
mark_word_found_toggling(cells) ==
    LET marked == {cells[k] : k \in 1..Len(cells)}
    IN (found_positions \ marked) \cup (marked \ found_positions)

\* A different mark_word_found: the cells take the place of the found set.
mark_word_found_replacing(cells) ==
    {cells[k] : k \in 1..Len(cells)}

\* mark_word_found
mark_word_found(cells) ==
    found_positions \cup {cells[k] : k \in 1..Len(cells)}

\* Only the first cell of the list gets the current time.
mark_word_incorrect_first_cell(cells) ==
    LET marked == {cells[k] : k \in 1..min(1, Len(cells))}
    IN [q \in DOMAIN incorrect_positions \cup marked |->
           IF q \in marked THEN now ELSE incorrect_positions[q]]

\* mark_word_incorrect: every cell gets the current time.
mark_word_incorrect(cells) ==
    LET marked == {cells[k] : k \in 1..Len(cells)}
    IN [q \in DOMAIN incorrect_positions \cup marked |->
           IF q \in marked THEN now ELSE incorrect_positions[q]]

\* The history of the stamps after mark_word_incorrect(cells).
last_stamps(cells) ==
    LET marked == {cells[k] : k \in 1..Len(cells)}
    IN [q \in DOMAIN stamped \cup marked |->
           IF q \in marked THEN now ELSE stamped[q]]

\* The fields of the grid and of generate() no mark or query assigns.
generated == <<pc, size, word_list, word_count, grid, placed_words,
               word_positions, selected_words, word_index, placed, attempts>>

\* The letters of the found cells taken out of the grid as well.
MarkWordFoundErasing(positions) ==
    /\ pc = "ready"
    /\ found_positions' = mark_word_found(positions)
    /\ grid' = [r \in Rows |-> [c \in Rows |->
                   IF \E k \in 1..Len(positions) : positions[k] = <<r, c>>
                   THEN EMPTY ELSE grid[r][c]]]
    /\ UNCHANGED <<pc, size, word_list, word_count, placed_words,
                   word_positions, selected_words, word_index, placed,
                   attempts, incorrect_positions>>
    /\ UNCHANGED <<rkVars, gameVars, histVars>>
    /\ UNCHANGED sessionVars

\* grid.mark_word_found(positions)
MarkWordFound(positions) ==
    /\ pc = "ready"
    /\ found_positions' = mark_word_found(positions)
    /\ UNCHANGED <<generated, incorrect_positions>>
    /\ UNCHANGED <<rkVars, gameVars, histVars>>
    /\ UNCHANGED sessionVars

\* grid.mark_word_incorrect(positions)
MarkWordIncorrect(positions) ==
    /\ pc = "ready"
    /\ incorrect_positions' = mark_word_incorrect(positions)
    /\ stamped' = last_stamps(positions)
    /\ UNCHANGED <<generated, found_positions>>
    /\ UNCHANGED <<rkVars, gameVars, committed>>
    /\ UNCHANGED sessionVars

\* grid.is_position_incorrect(row, col): the old entries are removed.
IsPositionIncorrect(row, col) ==
    /\ pc = "ready"
    /\ incorrect_positions' = purged
    /\ UNCHANGED <<generated, found_positions>>
    /\ UNCHANGED <<rkVars, gameVars, histVars>>
    /\ UNCHANGED sessionVars

\* The delays by which the clock advances between two calls.
Delays == {250, 251, 600}

\* time.time() has advanced by delay milliseconds.
Tick(delay) ==
    /\ pc = "ready"
    /\ now + delay <= MaxTime
    /\ now' = now + delay
    /\ UNCHANGED <<state, current_level, found_words, selecting,
                   selection_start, selection_end, game_pc, path_pc,
                   selected_positions, confirmed>>
    /\ UNCHANGED <<rkVars, gridVars, histVars>>
    /\ UNCHANGED sessionVars

-----------------------------------------------------------------------------
(* SpecApi: a 2 x 2 grid with the word GO is generated; then coordinate     *)
(* lists of up to MaxMarkLen cells (the first cell of the grid and the     *)
(* cell right of its first row) are marked found or incorrect and           *)
(* is_position_incorrect is queried, while the clock advances.              *)

ApiConfigs == {[size |-> 2, word_list |-> <<GO>>, word_count |-> 1]}

ApiCells == {<<0, 0>>, <<0, size>>}

\* The lists over those cells for the grid size of ApiConfigs, computed once.
ApiListsTable ==
    [n \in {cfg.size : cfg \in ApiConfigs} |->
        SeqsUpTo({<<0, 0>>, <<0, n>>}, MaxMarkLen)]

ApiLists == ApiListsTable[size]

InitApi ==
    RkIdle /\ GameIdle /\ PathIdle /\ HistIdle /\ SessionIdle /\ GridConstructed(ApiConfigs)

NextApi ==
    \/ NextGrid
    \/ \E positions \in ApiLists : MarkWordFound(positions)
    \/ \E positions \in ApiLists : MarkWordIncorrect(positions)
    \/ \E position \in ApiCells : IsPositionIncorrect(position[1], position[2])
    \/ \E delay \in Delays : Tick(delay)

SpecApi == InitApi /\ [][NextApi]_vars

-----------------------------------------------------------------------------
(* WordSearchGame._get_selection_path (game.py:263-295).                    *)

abs(x) == IF x < 0 THEN -x ELSE x
max(a, b) == IF a > b THEN a ELSE b

\* The loop running over range(n) instead of range(n + 1).
path_cells_short(start, row_step, col_step, n) ==
    [k \in 1..n |-> <<start[1] + (k - 1) * row_step,
                      start[2] + (k - 1) * col_step>>]

\* for i in range(n + 1): the cells start + i * step
path_cells(start, row_step, col_step, n) ==
    [k \in 1..(n + 1) |-> <<start[1] + (k - 1) * row_step,
                            start[2] + (k - 1) * col_step>>]

\* The path from start to end_, neither of them None.
selection_path(start, end_) ==
    LET row_diff == end_[1] - start[1]
        col_diff == end_[2] - start[2]
        steps == max(abs(row_diff), abs(col_diff))
        row_step == IF row_diff = 0 THEN 0 ELSE IF row_diff > 0 THEN 1 ELSE -1
        col_step == IF col_diff = 0 THEN 0 ELSE IF col_diff > 0 THEN 1 ELSE -1
    IN IF row_diff # 0 /\ col_diff # 0 /\ abs(row_diff) # abs(col_diff)
       THEN <<>>
       ELSE IF steps = 0 THEN <<start>>
       ELSE path_cells(start, row_step, col_step, steps)

_get_selection_path ==
    IF ~(selection_start # None /\ selection_end # None) THEN <<>>
    ELSE selection_path(selection_start, selection_end)

-----------------------------------------------------------------------------
(* SpecSearch: one call of search() on a pattern and a text over the search *)
(* alphabet.                                                                *)

InitSearch ==
    /\ GameIdle /\ PathIdle /\ GridNone /\ HistIdle /\ SessionIdle
    /\ rk_pc = "called"
    /\ pattern \in SeqsUpTo(SearchLetters, MaxPatternLen)
    /\ text \in SeqsUpTo(SearchLetters, MaxTextLen)
    /\ text_hash = 0 /\ rk_i = 0 /\ matches = <<>> /\ rk_result = FALSE

NextSearch == SearchCall \/ SearchStep \/ SearchReturn

SpecSearch == InitSearch /\ [][NextSearch]_vars

-----------------------------------------------------------------------------
(* SpecUnwanted: one call of contains_unwanted_pattern.  The text is any    *)
(* string of up to MaxUnwantedLen of the first NumUnwantedLetters           *)
(* characters of unwanted_alphabet, or a denylisted word, as it is, in      *)
(* lowercase, with a lowercase first letter, with its last letter replaced  *)
(* or without its last letter, between a prefix and a suffix of at most one *)
(* character.                                                               *)

unwanted_alphabet == <<"T", "H", "E", "t", "h", "e">>
UnwantedLetters == {unwanted_alphabet[k] : k \in 1..NumUnwantedLetters}

\* The lowercase letter of an uppercase one.
lower_char(ch) == lowercase[CHOOSE k \in 1..26 : letters[k] = ch]

WordVariants(w) ==
    {w,
     [k \in 1..Len(w) |-> lower_char(w[k])],
     [w EXCEPT ![1] = lower_char(w[1])],
     [w EXCEPT ![Len(w)] = "X"],
     SubSeq(w, 1, Len(w) - 1)}

UnwantedTexts ==
    SeqsUpTo(UnwantedLetters, MaxUnwantedLen)
    \cup {pre \o v \o post :
            pre \in {<<>>, <<"N">>, <<"a">>},
            post \in {<<>>, <<"D">>, <<"l">>},
            v \in UNION {WordVariants(unwanted_patterns[k]) :
                            k \in 1..Len(unwanted_patterns)}}

InitUnwanted ==
    /\ GameIdle /\ PathIdle /\ GridNone /\ HistIdle /\ SessionIdle
    /\ rk_pc = "unwanted_called"
    /\ pattern = <<>>
    /\ text \in UnwantedTexts
    /\ text_hash = 0 /\ rk_i = 0 /\ matches = <<>> /\ rk_result = FALSE

\* contains_unwanted_pattern(text) is called and returns.
ContainsUnwantedCall ==
    /\ rk_pc = "unwanted_called"
    /\ rk_pc' = "unwanted_returned"
    /\ rk_result' = contains_unwanted_pattern(text)
    /\ UNCHANGED <<pattern, text, text_hash, rk_i, matches, gridVars,
                   gameVars, histVars>>
    /\ UNCHANGED sessionVars

NextUnwanted == ContainsUnwantedCall

SpecUnwanted == InitUnwanted /\ [][NextUnwanted]_vars

-----------------------------------------------------------------------------
(* SpecPath: one call of _get_selection_path on a selection whose ends are  *)
(* cells with coordinates up to MaxCoord, or None.                          *)

PathCoords == (0..MaxCoord) \X (0..MaxCoord)

InitPath ==
    /\ RkIdle /\ GridNone /\ HistIdle /\ SessionIdle
    /\ state = "START_SCREEN" /\ current_level = 1 /\ found_words = {}
    /\ selecting = FALSE /\ game_pc = "idle" /\ now = 0 /\ confirmed = {}
    /\ selection_start \in PathCoords \cup {None}
    /\ selection_end \in PathCoords \cup {None}
    /\ path_pc = "called" /\ selected_positions = <<>>

\* selected_positions = self._get_selection_path()
ResolvePath ==
    /\ path_pc = "called"
    /\ path_pc' = "returned"
    /\ selected_positions' = _get_selection_path
    /\ UNCHANGED <<state, current_level, found_words, selecting,
                   selection_start, selection_end, game_pc, now, confirmed>>
    /\ UNCHANGED <<rkVars, gridVars, histVars>>
    /\ UNCHANGED sessionVars

NextPath == ResolvePath

SpecPath == InitPath /\ [][NextPath]_vars

-----------------------------------------------------------------------------
(* WordSearchGame (game.py): a level is started and played with the mouse.  *)
(* The key handlers of the other screens follow with SpecSession.          *)

\* str.strip(), the blank being the only whitespace of the model.
strip(s) ==
    LET inked == {k \in 1..Len(s) : s[k] # " "}
    IN IF inked = {} THEN <<>>
       ELSE SubSeq(s, CHOOSE k \in inked : \A j \in inked : k <= j,
                      CHOOSE k \in inked : \A j \in inked : k >= j)

\* sum(lst)
RECURSIVE sum(_)
sum(lst) == IF lst = <<>> THEN 0 ELSE lst[1] + sum(Tail(lst))

\* _calculate_score for a completion time in milliseconds: the penalty is
\* completion_time * 10, at most 800, and int() cuts the fraction of
\* 1000 - penalty off.
_calculate_score(completion_time) ==
    LET time_penalty_hundredths == min(completion_time, 80000)
    IN max(1000 - (time_penalty_hundredths + 99) \div 100, 200)

\* An average as a fraction num/den of seconds; den = 0 stands for
\* float('inf').
\* sum(level_completion_times) / len(level_completion_times), or inf; the
\* times are in milliseconds.
average_completion_time ==
    IF level_completion_times = <<>> THEN [num |-> 1, den |-> 0]
    ELSE [num |-> sum(level_completion_times),
          den |-> 1000 * Len(level_completion_times)]

\* sum(self.level_scores) / len(self.level_scores) if self.level_scores else 0
average_level_score ==
    IF level_scores = <<>> THEN [num |-> 0, den |-> 1]
    ELSE [num |-> sum(level_scores), den |-> Len(level_scores)]

base_thresholds == [S |-> 30, A |-> 60, B |-> 90, C |-> 120]

\* max(0.5, 1.0 - (current_level - 1) * 0.1), in tenths
level_multiplier == max(5, 10 - (current_level - 1))

\* avg_time < threshold * level_multiplier
below(avg_time, threshold) ==
    /\ avg_time.den # 0
    /\ avg_time.num * 10 < threshold * level_multiplier * avg_time.den

_get_rank(avg_time) ==
    IF below(avg_time, base_thresholds.S) THEN "S"
    ELSE IF below(avg_time, base_thresholds.A) THEN "A"
    ELSE IF below(avg_time, base_thresholds.B) THEN "B"
    ELSE IF below(avg_time, base_thresholds.C) THEN "C"
    ELSE "D"

\* The rank draw() hands to draw_game_complete.
drawn_rank == _get_rank(average_level_score)

-----------------------------------------------------------------------------
(* Leaderboard (leaderboard.py).  An entry is a record of name, score and   *)
(* rank; its date takes no part in the order and is left out.  The list is  *)
(* what save_scores writes to the file.                                     *)

top_kept == 100

_rank_to_number(rank) ==
    IF rank = "S" THEN 1
    ELSE IF rank = "A" THEN 2
    ELSE IF rank = "B" THEN 3
    ELSE IF rank = "C" THEN 4
    ELSE IF rank = "D" THEN 5
    ELSE 6

\* The key without the rank.
sort_key_score_only(x) == <<-x.score, 0>>

\* key=lambda x: (-x['score'], self._rank_to_number(x['rank']))
sort_key(x) == <<-x.score, _rank_to_number(x.rank)>>

\* The order of the keys, tuples compared as Python compares them.
key_less(a, b) == a[1] < b[1] \/ (a[1] = b[1] /\ a[2] < b[2])

\* The entries of lst whose key is in keys, in the order of their keys,
\* entries with the same key in the order they have in lst.
RECURSIVE in_key_order(_, _)
in_key_order(lst, keys) ==
    IF keys = {} THEN <<>>
    ELSE LET least == CHOOSE k \in keys : \A j \in keys : ~key_less(j, k)
         IN SelectSeq(lst, LAMBDA x : sort_key(x) = least)
                \o in_key_order(lst, keys \ {least})

\* list.sort(key=...): a stable sort.
sort(lst) == in_key_order(lst, {sort_key(lst[i]) : i \in 1..Len(lst)})

\* lst[:n]
slice_to(lst, n) ==
    IF n >= 0 THEN SubSeq(lst, 1, min(n, Len(lst)))
    ELSE SubSeq(lst, 1, max(Len(lst) + n, 0))

\* The list add_score leaves: the entry appended, the list sorted and cut.
add_score(name, score, rank) ==
    LET score_entry == [name |-> strip(name), score |-> score, rank |-> rank]
    IN slice_to(sort(Append(scores, score_entry)), top_kept)

\* The history of the entries after add_score.
added_with(name, score, rank) ==
    LET score_entry == [name |-> strip(name), score |-> score, rank |-> rank]
    IN [e \in DOMAIN added \cup {score_entry} |->
           IF e = score_entry
           THEN (IF e \in DOMAIN added THEN added[e] ELSE 0) + 1
           ELSE added[e]]

get_top_scores(limit) == slice_to(scores, limit)

-----------------------------------------------------------------------------
(* WordSearchGame: the level being played.                                  *)

\* The rest of _start_level, after generate() has returned.
StartLevelDone ==
    /\ game_pc = "start_level"
    /\ pc = "ready"
    /\ found_words' = {}
    /\ selecting' = FALSE
    /\ selection_start' = None
    /\ selection_end' = None
    /\ start_time' = now
    /\ state' = "PLAYING"
    /\ game_pc' = "idle"
    /\ confirmed' = {}
    /\ UNCHANGED <<current_level, now, path_pc, selected_positions>>
    /\ UNCHANGED <<rkVars, gridVars, histVars>>
    /\ UNCHANGED <<player_name, scoreVars, scores, passed_rank, added>>

\* MOUSEBUTTONDOWN, left button; grid_pos is what screen_to_grid returned.
MouseButtonDown(grid_pos) ==
    /\ state = "PLAYING" /\ game_pc = "idle"
    /\ IF grid_pos = None
       THEN UNCHANGED <<selecting, selection_start, selection_end>>
       ELSE /\ selecting' = TRUE
            /\ selection_start' = grid_pos
            /\ selection_end' = grid_pos
    /\ UNCHANGED <<state, current_level, found_words, game_pc, now, path_pc,
                   selected_positions, confirmed>>
    /\ UNCHANGED <<rkVars, gridVars, histVars>>
    /\ UNCHANGED sessionVars

\* MOUSEMOTION while selecting.
MouseMotion(grid_pos) ==
    /\ state = "PLAYING" /\ game_pc = "idle"
    /\ selecting
    /\ IF grid_pos # None
       THEN selection_end' = grid_pos
       ELSE UNCHANGED selection_end
    /\ UNCHANGED <<state, current_level, found_words, selecting,
                   selection_start, game_pc, now, path_pc, selected_positions,
                   confirmed>>
    /\ UNCHANGED <<rkVars, gridVars, histVars>>
    /\ UNCHANGED sessionVars

\* The loop of _check_word_selection over the selected cells returns at the
\* first one outside the grid: whether it runs to its end.
selection_in_grid(cells) ==
    \A k \in 1..Len(cells) :
        0 <= cells[k][1] /\ cells[k][1] < size
            /\ 0 <= cells[k][2] /\ cells[k][2] < size

\* The listed words is_word_at_positions accepts the cells for.
verified_words(cells) ==
    LET word_upper == upper(letters_at(grid, cells))
        word_reverse == reversed(word_upper)
    IN {placed_words[k] : k \in
           {j \in 1..Len(placed_words) :
               /\ (Len(search(placed_words[j], word_upper)) > 0
                   \/ Len(search(placed_words[j], word_reverse)) > 0)
               /\ _verify_word_positions(placed_words[j], cells)}}

\* _complete_level; the time kept for the display is left out.
_complete_level ==
    LET actual_completion_time == now - start_time
        level_score == _calculate_score(actual_completion_time)
    IN /\ level_scores' = Append(level_scores, level_score)
       /\ level_completion_times' =
              Append(level_completion_times, actual_completion_time)
       /\ total_score' = total_score + level_score
       /\ state' = "LEVEL_COMPLETE"

_check_word_selection ==
    LET cells == _get_selection_path
    IN IF \/ ~(selection_start # None /\ selection_end # None)
          \/ cells = <<>>
          \/ pc = "none"
          \/ ~selection_in_grid(cells)
       THEN UNCHANGED <<state, found_words, found_positions,
                        incorrect_positions, selection_start, selection_end,
                        confirmed, stamped, scoreVars>>
       ELSE /\ IF is_word_at_positions(cells)
               THEN LET word == upper(letters_at(grid, cells))
                    IN /\ IF word \notin found_words
                          THEN /\ found_words' = found_words \cup {word}
                               /\ found_positions' = mark_word_found(cells)
                               /\ IF Cardinality(found_words \cup {word})
                                        >= Len(placed_words)
                                  THEN _complete_level
                                  ELSE UNCHANGED <<state, scoreVars>>
                          ELSE UNCHANGED <<state, found_words, found_positions,
                                           scoreVars>>
                       /\ confirmed' = confirmed \cup verified_words(cells)
                       /\ UNCHANGED <<incorrect_positions, stamped>>
               ELSE /\ incorrect_positions' = mark_word_incorrect(cells)
                    /\ stamped' = last_stamps(cells)
                    /\ UNCHANGED <<state, found_words, found_positions,
                                   confirmed, scoreVars>>
            /\ selection_start' = None
            /\ selection_end' = None

\* MOUSEBUTTONUP, left button, while selecting.
MouseButtonUp ==
    /\ state = "PLAYING" /\ game_pc = "idle"
    /\ selecting
    /\ selecting' = FALSE
    /\ _check_word_selection
    /\ UNCHANGED <<current_level, game_pc, now, path_pc, selected_positions>>
    /\ UNCHANGED <<rkVars, pc, size, word_list, word_count, grid,
                   placed_words, word_positions, selected_words, word_index,
                   placed, attempts, committed>>
    /\ UNCHANGED <<player_name, start_time, scores, passed_rank, added>>

-----------------------------------------------------------------------------
(* SpecGame: _start_level(1) has constructed the grid of a level with two   *)
(* two-letter words on a 2 x 2 grid; the grid is generated and the level is *)
(* played.                                                                  *)

\* The word list has a repeated entry, as the easy list has (TOP).
GameConfigs == {[size |-> 2, word_list |-> <<GO, UP, UP>>, word_count |-> 2]}

\* What screen_to_grid can return: a cell, inside the grid or in one of the
\* OutsideCells columns to the right of its first row, or None.
GridPositions ==
    (Rows \X Rows) \cup {<<0, size + k>> : k \in 0..(OutsideCells - 1)}
        \cup {None}

InitGame ==
    /\ RkIdle /\ PathIdle /\ HistIdle /\ SessionNamed /\ GridConstructed(GameConfigs)
    /\ state = "NAME_INPUT" /\ current_level = 1 /\ found_words = {}
    /\ selecting = FALSE /\ selection_start = None /\ selection_end = None
    /\ game_pc = "start_level" /\ now = 0 /\ confirmed = {}

NextGame ==
    \/ NextGrid
    \/ StartLevelDone
    \/ \E grid_pos \in GridPositions : MouseButtonDown(grid_pos)
    \/ \E grid_pos \in GridPositions : MouseMotion(grid_pos)
    \/ MouseButtonUp

SpecGame == InitGame /\ [][NextGame]_vars

-----------------------------------------------------------------------------
(* SpecLevels: the levels of a game played one after another, each on a     *)
(* 2 x 2 grid with the words GO and UP; a level is left with the SPACE key  *)
(* once it is complete.  At most MaxLevels levels are started.              *)

max_level == 5

LevelConfigs == {[size |-> 2, word_list |-> <<GO, UP>>, word_count |-> 2]}

\* self.grid = WordGrid(config["size"], word_list, config["word_count"]):
\* a new grid takes the place of the old one.
WordGridCall(cfg) ==
    /\ pc' = "new"
    /\ size' = cfg.size
    /\ word_list' = cfg.word_list
    /\ word_count' = cfg.word_count
    /\ grid' = <<>>
    /\ placed_words' = <<>>
    /\ word_positions' = <<>>
    /\ found_positions' = {}
    /\ incorrect_positions' = <<>>
    /\ selected_words' = <<>>
    /\ word_index' = 0
    /\ placed' = FALSE
    /\ attempts' = 0
    /\ stamped' = <<>>
    /\ committed' = <<>>

\* _start_level(level) up to its call of generate(), the configuration of
\* the level being one of configs.
_start_level_on(configs, level) ==
    /\ current_level' = level
    /\ \E cfg \in configs : WordGridCall(cfg)
    /\ game_pc' = "start_level"
    /\ confirmed' = {}
    /\ UNCHANGED <<state, found_words, selecting, selection_start,
                   selection_end, now, path_pc, selected_positions>>
    /\ UNCHANGED sessionVars

_start_level(level) == _start_level_on(LevelConfigs, level)

_complete_game ==
    /\ LET rank == _get_rank(average_completion_time)
       IN IF strip(player_name) # <<>>
          THEN /\ scores' = add_score(player_name, total_score, rank)
               /\ added' = added_with(player_name, total_score, rank)
               /\ passed_rank' = rank
          ELSE UNCHANGED <<scores, added, passed_rank>>
    /\ state' = "GAME_COMPLETE"
    /\ UNCHANGED <<player_name, start_time, scoreVars>>
    /\ UNCHANGED <<current_level, found_words, selecting, selection_start,
                   selection_end, game_pc, now, path_pc, selected_positions,
                   confirmed>>
    /\ UNCHANGED <<gridVars, histVars>>

\* KEYDOWN K_SPACE in LEVEL_COMPLETE.
LevelCompleteSpace ==
    /\ state = "LEVEL_COMPLETE" /\ game_pc = "idle"
    /\ IF current_level < max_level
       THEN current_level < MaxLevels /\ _start_level(current_level + 1)
       ELSE _complete_game
    /\ UNCHANGED rkVars

InitLevels ==
    /\ RkIdle /\ PathIdle /\ HistIdle /\ SessionNamed /\ GridConstructed(LevelConfigs)
    /\ state = "NAME_INPUT" /\ current_level = 1 /\ found_words = {}
    /\ selecting = FALSE /\ selection_start = None /\ selection_end = None
    /\ game_pc = "start_level" /\ now = 0 /\ confirmed = {}

NextLevels == NextGame \/ LevelCompleteSpace

SpecLevels == InitLevels /\ [][NextLevels]_vars

-----------------------------------------------------------------------------
(* SpecSession: the game from its start screen on, with the keyboard and    *)
(* the mouse: a name is typed, the five levels are played, each on a 1 x 1  *)
(* grid with the word A, the leaderboard is looked at, and games follow one *)
(* another.  The clock advances while a level is played.                    *)

SessionConfigs == {[size |-> 1, word_list |-> << <<"A">> >>, word_count |-> 1]}

\* The characters typed into the name, and the names typed: a blank one and
\* one that is not blank.
NameChars == {"A", " "}
NameInputs == {<<>>, <<"A">>, <<" ">>}

\* len(self.player_name) < 20
name_limit == 20

\* The delays by which the clock advances while a level is played.
SessionDelays == {200000}

\* _save_current_progress_if_any
_save_current_progress_if_any ==
    IF strip(player_name) # <<>> /\ level_completion_times # <<>>
    THEN LET current_rank == _get_rank(average_completion_time)
         IN /\ scores' = add_score(player_name, total_score, current_rank)
            /\ added' = added_with(player_name, total_score, current_rank)
    ELSE UNCHANGED <<scores, added>>

\* _reset_game: self.grid = None, and the histories of the grid with it.
_reset_game ==
    /\ player_name' = <<>>
    /\ current_level' = 1
    /\ total_score' = 0
    /\ level_scores' = <<>>
    /\ level_completion_times' = <<>>
    /\ pc' = "none" /\ size' = 0 /\ word_list' = <<>> /\ word_count' = 0
    /\ grid' = <<>> /\ placed_words' = <<>> /\ word_positions' = <<>>
    /\ found_positions' = {} /\ incorrect_positions' = <<>>
    /\ selected_words' = <<>> /\ word_index' = 0 /\ placed' = FALSE
    /\ attempts' = 0
    /\ stamped' = <<>> /\ committed' = <<>> /\ confirmed' = {}
    /\ found_words' = {}

\* What a key handler that starts no level and resets nothing leaves alone.
KeyLeaves ==
    /\ UNCHANGED <<current_level, found_words, selecting, selection_start,
                   selection_end, game_pc, now, path_pc, selected_positions,
                   confirmed>>
    /\ UNCHANGED <<rkVars, gridVars, histVars>>
    /\ UNCHANGED <<start_time, scoreVars, scores, passed_rank, added>>

\* START_SCREEN: K_SPACE or the start button.
StartScreenStart ==
    /\ state = "START_SCREEN" /\ game_pc = "idle"
    /\ state' = "NAME_INPUT"
    /\ KeyLeaves /\ UNCHANGED player_name

\* START_SCREEN: K_l or the leaderboard button.
StartScreenLeaderboard ==
    /\ state = "START_SCREEN" /\ game_pc = "idle"
    /\ state' = "LEADERBOARD"
    /\ KeyLeaves /\ UNCHANGED player_name

\* NAME_INPUT: K_RETURN with a name that is not blank.
NameInputReturn ==
    /\ state = "NAME_INPUT" /\ game_pc = "idle"
    /\ strip(player_name) # <<>>
    /\ Len(scores) < MaxGames
    /\ _start_level_on(SessionConfigs, 1)
    /\ UNCHANGED rkVars

\* NAME_INPUT: K_BACKSPACE.
NameInputBackspace ==
    /\ state = "NAME_INPUT" /\ game_pc = "idle"
    /\ player_name' = slice_to(player_name, -1)
    /\ KeyLeaves /\ UNCHANGED state

\* NAME_INPUT: K_ESCAPE.
NameInputEscape ==
    /\ state = "NAME_INPUT" /\ game_pc = "idle"
    /\ state' = "START_SCREEN"
    /\ KeyLeaves /\ UNCHANGED player_name

\* NAME_INPUT: a printable character.
NameInputType(unicode) ==
    /\ state = "NAME_INPUT" /\ game_pc = "idle"
    /\ Len(player_name) < name_limit
    /\ Append(player_name, unicode) \in NameInputs
    /\ player_name' = Append(player_name, unicode)
    /\ KeyLeaves /\ UNCHANGED state

\* PLAYING or LEVEL_COMPLETE: K_ESCAPE.
EscapeToStart ==
    /\ state \in {"PLAYING", "LEVEL_COMPLETE"} /\ game_pc = "idle"
    /\ _save_current_progress_if_any
    /\ state' = "START_SCREEN"
    /\ _reset_game
    /\ UNCHANGED <<selecting, selection_start, selection_end, game_pc, now,
                   path_pc, selected_positions, start_time, passed_rank>>
    /\ UNCHANGED rkVars

\* The game ending one level early.
LevelCompleteNextEarly ==
    /\ state = "LEVEL_COMPLETE" /\ game_pc = "idle"
    /\ IF current_level < max_level - 1
       THEN _start_level_on(SessionConfigs, current_level + 1)
       ELSE _complete_game
    /\ UNCHANGED rkVars

\* LEVEL_COMPLETE: K_SPACE.
LevelCompleteNext ==
    /\ state = "LEVEL_COMPLETE" /\ game_pc = "idle"
    /\ IF current_level < max_level
       THEN _start_level_on(SessionConfigs, current_level + 1)
       ELSE _complete_game
    /\ UNCHANGED rkVars

\* GAME_COMPLETE: K_SPACE.
GameCompleteSpace ==
    /\ state = "GAME_COMPLETE" /\ game_pc = "idle"
    /\ state' = "START_SCREEN"
    /\ _reset_game
    /\ UNCHANGED <<selecting, selection_start, selection_end, game_pc, now,
                   path_pc, selected_positions, start_time, passed_rank,
                   scores, added>>
    /\ UNCHANGED rkVars

\* GAME_COMPLETE: K_l.
GameCompleteLeaderboard ==
    /\ state = "GAME_COMPLETE" /\ game_pc = "idle"
    /\ state' = "LEADERBOARD"
    /\ KeyLeaves /\ UNCHANGED player_name

\* LEADERBOARD: K_ESCAPE or K_SPACE.
LeaderboardBack ==
    /\ state = "LEADERBOARD" /\ game_pc = "idle"
    /\ state' = "START_SCREEN"
    /\ KeyLeaves /\ UNCHANGED player_name

\* time.time() has advanced by delay milliseconds while a level is played.
SessionTick(delay) ==
    /\ state = "PLAYING" /\ game_pc = "idle"
    /\ now + delay <= MaxSessionTime
    /\ now' = now + delay
    /\ UNCHANGED <<state, current_level, found_words, selecting,
                   selection_start, selection_end, game_pc, path_pc,
                   selected_positions, confirmed>>
    /\ UNCHANGED <<rkVars, gridVars, histVars, sessionVars>>

InitSession ==
    RkIdle /\ GameIdle /\ PathIdle /\ HistIdle /\ SessionIdle /\ GridNone

NextSession ==
    \/ NextGame
    \/ StartScreenStart
    \/ StartScreenLeaderboard
    \/ NameInputReturn
    \/ NameInputBackspace
    \/ NameInputEscape
    \/ \E unicode \in NameChars : NameInputType(unicode)
    \/ EscapeToStart
    \/ LevelCompleteNext
    \/ GameCompleteSpace
    \/ GameCompleteLeaderboard
    \/ LeaderboardBack
    \/ \E delay \in SessionDelays : SessionTick(delay)

SpecSession == InitSession /\ [][NextSession]_vars

-----------------------------------------------------------------------------
(* SpecLeaderboard: add_score is called on a leaderboard that starts empty, *)
(* up to MaxAdds times, with the results of three kinds of game.            *)

\* What a game passes to add_score: its name, total score and rank.
AddChoices ==
    {[name |-> <<"A">>, score |-> 5000, rank |-> "S"],
     [name |-> <<"A">>, score |-> 5000, rank |-> "D"],
     [name |-> <<"A">>, score |-> 1000, rank |-> "A"]}

\* The number of add_score calls so far.
RECURSIVE total(_, _)
total(f, S) ==
    IF S = {} THEN 0
    ELSE LET e == CHOOSE x \in S : TRUE IN f[e] + total(f, S \ {e})

adds == total(added, DOMAIN added)

\* leaderboard.add_score(name, score, rank)
AddScore(name, score, rank) ==
    /\ pc = "none" /\ state = "START_SCREEN"
    /\ adds < MaxAdds
    /\ scores' = add_score(name, score, rank)
    /\ added' = added_with(name, score, rank)
    /\ UNCHANGED <<player_name, start_time, scoreVars, passed_rank>>
    /\ UNCHANGED <<rkVars, gridVars, gameVars, histVars>>

InitLeaderboard ==
    RkIdle /\ GameIdle /\ PathIdle /\ HistIdle /\ SessionIdle /\ GridNone

NextLeaderboard ==
    \E call \in AddChoices : AddScore(call.name, call.score, call.rank)

SpecLeaderboard == InitLeaderboard /\ [][NextLeaderboard]_vars

-----------------------------------------------------------------------------
(* The coordinate lists the verification properties range over: the empty  *)
(* list and every straight line over the grid and one ring of cells around  *)
(* it (the properties add the lists next to the recorded ones).             *)

Region(n) == (-1..n) \X (-1..n)

PathInputsOf(n) ==
    {<<>>} \cup {selection_path(a, b) : a \in Region(n), b \in Region(n)}

\* The lists for each grid size of the model, computed once.
PathInputsTable == [n \in {1, 2, 3} |-> PathInputsOf(n)]

PathInputs == PathInputsTable[size]

Ready == pc = "ready"

\* The coordinate list recorded for a listed word.
recorded(word) == word_positions[word]

-----------------------------------------------------------------------------
(* C1  Placement validity: after generate(), every listed word has a        *)
(* recorded coordinate list of the word's length, inside the grid, along    *)
(* one of the 8 directions, and the filled grid reads the word along it.    *)

ValidPlacement(word) ==
    /\ word \in DOMAIN word_positions
    /\ Len(recorded(word)) = Len(word)
    /\ \A k \in 1..Len(word) :
          in_bounds(recorded(word)[k][1], recorded(word)[k][2])
    /\ \E d \in 1..Len(directions) :
          \A k \in 1..(Len(word) - 1) :
              /\ recorded(word)[k + 1][1] - recorded(word)[k][1] = directions[d][1]
              /\ recorded(word)[k + 1][2] - recorded(word)[k][2] = directions[d][2]
    /\ \A k \in 1..Len(word) :
          grid[recorded(word)[k][1]][recorded(word)[k][2]] = word[k]

C1_PlacementValidity ==
    Ready => \A k \in 1..Len(get_word_list) : ValidPlacement(get_word_list[k])

\* Two listed words cross in a ready grid.
C1_Witness ==
    /\ Ready
    /\ Len(get_word_list) = 2
    /\ get_word_list[1] # get_word_list[2]
    /\ \E a, b \in 1..3 :
          recorded(get_word_list[1])[a] = recorded(get_word_list[2])[b]

-----------------------------------------------------------------------------
(* C2  No unresolved empty cells: after generate() the grid has size rows   *)
(* of size cells and every cell holds one uppercase letter.                 *)

C2_NoEmptyCells ==
    Ready =>
        /\ DOMAIN grid = Rows
        /\ \A r \in Rows :
              /\ DOMAIN grid[r] = Rows
              /\ \A c \in Rows : \E k \in 1..26 : grid[r][c] = letters[k]

\* A ready grid in which a word was dropped, so that the fill step had more
\* cells to fill than a full placement leaves.
C2_Witness == Ready /\ size = 3 /\ Len(get_word_list) = 1

-----------------------------------------------------------------------------
(* C3  Verification exactness: is_word_at_positions(P) is true exactly when *)
(* P is not empty, lies inside the grid and is the recorded list of a       *)
(* listed word, forward or reversed; a list that spells a listed word       *)
(* elsewhere is rejected.                                                   *)

IsRecorded(P) ==
    \E k \in 1..Len(get_word_list) :
        \/ P = recorded(get_word_list[k])
        \/ P = reversed(recorded(get_word_list[k]))

InsideGrid(P) ==
    \A k \in 1..Len(P) : P[k] \in Rows \X Rows

\* The answer for P is the specified one.
Exact(P) ==
    /\ ~is_word_at_raises(P)
    /\ is_word_at_positions(P) <=> (P # <<>> /\ InsideGrid(P) /\ IsRecorded(P))

\* The coordinates of rec in the order f.
Picked(rec, f) == [i \in 1..Len(rec) |-> rec[f[i]]]

\* The orders of n things, for the word lengths of the model, computed once.
OrdersTable ==
    [n \in {1, 2, 3} |->
        {f \in [1..n -> 1..n] : \A a, b \in 1..n : a # b => f[a] # f[b]}]

Orders(n) == OrdersTable[n]

\* The answer is the specified one for the lists one change away from rec:
\* one coordinate replaced by any cell of the grid, one cell of the grid
\* added at either end, the coordinates put in any order.
ExactNear(rec) ==
    /\ \A q \in Rows \X Rows :
          /\ \A k \in 1..Len(rec) : Exact([rec EXCEPT ![k] = q])
          /\ Exact(Append(rec, q))
          /\ Exact(<<q>> \o rec)
    /\ \A f \in Orders(Len(rec)) : Exact(Picked(rec, f))

C3_VerificationExact ==
    Ready =>
        /\ \A P \in PathInputs : Exact(P)
        /\ \A k \in 1..Len(get_word_list) :
              ExactNear(recorded(get_word_list[k]))

\* A ready grid where a straight line that is no recorded list spells a
\* listed word and is rejected, the recorded list is accepted, and a list
\* of cells of the recorded list that is no straight line is rejected.
C3_Witness ==
    /\ Ready
    /\ \E P \in PathInputs :
          /\ P # <<>> /\ InsideGrid(P) /\ ~IsRecorded(P)
          /\ In(letters_at(grid, P), get_word_list)
          /\ ~is_word_at_positions(P)
    /\ \E P \in PathInputs : is_word_at_positions(P)
    /\ \E k \in 1..Len(get_word_list) :
          \E f \in Orders(3) :
              LET P == Picked(recorded(get_word_list[k]), f)
              IN /\ P \notin PathInputs
                 /\ ~is_word_at_positions(P)

-----------------------------------------------------------------------------
(* C6  Out-of-bounds safety: a list with a coordinate outside the grid, at  *)
(* any place of the list, makes is_word_at_positions return False without   *)
(* raising. (The query reads the state only.)                               *)

\* False is returned and nothing is raised.
ReturnsFalse(P) == ~is_word_at_raises(P) /\ ~is_word_at_positions(P)

\* The straight lines that leave the grid, and the recorded lists with any
\* one coordinate, the middle ones too, replaced by a cell outside the grid.
C6_OutOfBoundsFalse ==
    Ready =>
        /\ \A P \in PathInputs : ~InsideGrid(P) => ReturnsFalse(P)
        /\ \A k \in 1..Len(get_word_list) :
              \A j \in 1..Len(recorded(get_word_list[k])) :
                  \A q \in Region(size) \ (Rows \X Rows) :
                      ReturnsFalse([recorded(get_word_list[k]) EXCEPT ![j] = q])

\* A ready grid and a straight line that is the recorded list of a listed
\* word followed by one cell outside the grid, and another that is one cell
\* outside the grid followed by the recorded list.
C6_Witness ==
    /\ Ready
    /\ \E k \in 1..Len(get_word_list), P, Q \in PathInputs :
          LET rec == recorded(get_word_list[k])
          IN /\ Len(P) = Len(rec) + 1 /\ Len(Q) = Len(rec) + 1
             /\ SubSeq(P, 1, Len(rec)) = rec
             /\ SubSeq(Q, 2, Len(Q)) = rec
             /\ P[Len(P)] \notin Rows \X Rows
             /\ Q[1] \notin Rows \X Rows
             /\ ~is_word_at_positions(P) /\ ~is_word_at_positions(Q)

-----------------------------------------------------------------------------
(* C7  Verification symmetry: a list and its reverse get the same answer.   *)

C7_VerificationSymmetric ==
    Ready =>
        \A P \in PathInputs :
            is_word_at_positions(P) <=> is_word_at_positions(reversed(P))

\* A ready grid, a list that verifies and is not its own reverse, and a list
\* that spells a listed word backwards somewhere else and does not verify.
C7_Witness ==
    /\ Ready
    /\ \E P \in PathInputs :
          /\ P # reversed(P)
          /\ is_word_at_positions(P) /\ is_word_at_positions(reversed(P))
    /\ \E P \in PathInputs :
          /\ InsideGrid(P) /\ P # <<>>
          /\ In(letters_at(grid, reversed(P)), get_word_list)
          /\ ~is_word_at_positions(P) /\ ~is_word_at_positions(reversed(P))

-----------------------------------------------------------------------------
(* C5  Unwanted-overlap rule: a candidate placement that fits and has no    *)
(* letter conflict is rejected if and only if, with the candidate committed *)
(* to the grid, some maximal run of at least 3 non-empty cells along one of *)
(* the 8 directions contains a denylisted word and is not one of the        *)
(* intended words, the candidate counting as an intended word.              *)

\* The text contains a denylisted word as a contiguous substring.
ContainsDenylisted(t) ==
    \E k \in 1..Len(unwanted_patterns), i \in 1..Len(t) :
        /\ i + Len(unwanted_patterns[k]) - 1 <= Len(t)
        /\ SubSeq(t, i, i + Len(unwanted_patterns[k]) - 1) = unwanted_patterns[k]

\* The maximal runs of non-empty cells of g along direction d: those that
\* start at a non-empty cell whose predecessor is empty or outside the grid.
MaximalRuns(g, d) ==
    {run_text(g, p[1], p[2], d[1], d[2]) :
        p \in {q \in Rows \X Rows :
                  /\ g[q[1]][q[2]] # EMPTY
                  /\ ~(/\ in_bounds(q[1] - d[1], q[2] - d[2])
                       /\ g[q[1] - d[1]][q[2] - d[2]] # EMPTY)}}

\* The rejection the rule asks for.
RuleRejects(word, start_row, start_col, direction) ==
    LET g == with_word(grid, word, start_row, start_col, direction)
    IN \E k \in 1..Len(directions) :
           \E t \in MaximalRuns(g, directions[k]) :
               /\ Len(t) >= 3
               /\ ContainsDenylisted(t)
               /\ ~(In(t, placed_words) \/ t = word)

C5_OverlapRule ==
    (pc = "placing" /\ keep_trying) =>
        \A row \in Rows, col \in Rows, k \in 1..Len(directions) :
            (/\ fits(current_word, row, col, directions[k])
             /\ ~conflicts(current_word, row, col, directions[k]))
            => (_creates_unwanted_overlap(current_word, row, col, directions[k])
                <=> RuleRejects(current_word, row, col, directions[k]))

-----------------------------------------------------------------------------
(* C10  Bounded retry and silent drop: generate() terminates (a bound on    *)
(* its remaining steps decreases until it returns); each sampled            *)
(* word gets at most 100 attempts; a word whose 100 attempts all failed is  *)
(* dropped: the word list, the position index and the grid stay as they     *)
(* were, the next sampled word is attempted or, after the last one, the     *)
(* fill step runs; the index holds exactly the listed words, none of which  *)
(* is longer than size.                                                     *)

\* All attempts for the current word have failed.
Exhausted == pc = "placing" /\ ~placed /\ attempts >= max_attempts

DropStep ==
    /\ placed_words' = placed_words
    /\ word_positions' = word_positions
    /\ grid' = grid
    /\ \/ /\ word_index < Len(selected_words)
          /\ pc' = "placing" /\ word_index' = word_index + 1 /\ attempts' = 0
       \/ /\ word_index = Len(selected_words)
          /\ pc' = "fill"

\* Between a successful attempt and the append that follows the loop, the
\* index is one word ahead of the list.
Appending == pc = "placing" /\ placed

ListedOnly ==
    /\ DOMAIN word_positions = {placed_words[k] : k \in 1..Len(placed_words)}
    /\ \A k \in 1..Len(placed_words) : Len(placed_words[k]) <= size

\* An upper bound on the number of steps generate() still has to take.
StepsLeft ==
    CASE pc = "new" -> word_count * (max_attempts + 1) + 3
      [] pc = "sample" -> word_count * (max_attempts + 1) + 2
      [] pc = "placing" ->
            (Len(selected_words) - word_index) * (max_attempts + 1)
                + (IF placed THEN 0 ELSE max_attempts - attempts) + 2
      [] pc = "fill" -> 1
      [] pc = "ready" -> 0

\* generate() has a step to take: an attempt needs nothing but a start cell
\* to draw, the other steps are enabled as they stand.
CanStep ==
    \/ pc = "placing" /\ keep_trying /\ Rows # {}
    \/ ENABLED _initialize_grid
    \/ ENABLED SampleWords
    \/ ENABLED EndWord
    \/ ENABLED Fill

\* Termination: every step lowers the bound, which is never negative, and
\* generate() can take a step as long as it has not returned.
C10_BoundedRetry ==
    /\ [](attempts <= max_attempts /\ (Appending \/ ListedOnly))
    /\ [][Exhausted => DropStep]_vars
    /\ [](StepsLeft >= 0 /\ (Ready \/ CanStep))
    /\ [][StepsLeft' < StepsLeft]_vars

\* Both sampled words of a 3 x 3 grid were dropped and the grid is filled.
C10_Witness ==
    /\ Ready /\ size = 3 /\ Len(get_word_list) = 0
    /\ DOMAIN word_positions = {}
    /\ \A row \in Rows, col \in Rows : grid[row][col] # EMPTY

-----------------------------------------------------------------------------
(* C4  Level-complete condition: the game is in LEVEL_COMPLETE only when    *)
(* every word of the placed-word list has been confirmed by a verified      *)
(* selection, the number of confirmed listed words being the number of      *)
(* placed words.                                                            *)

C4_LevelCompleteCondition ==
    state = "LEVEL_COMPLETE" =>
        /\ \A k \in 1..Len(placed_words) : placed_words[k] \in confirmed
        /\ Cardinality(confirmed) = Len(placed_words)

-----------------------------------------------------------------------------
(* C8  Path resolver: for a start and an end with dr = r1 - r0 and          *)
(* dc = c1 - c0, the path is empty iff dr # 0, dc # 0 and |dr| # |dc|;      *)
(* otherwise it has max(|dr|, |dc|) + 1 cells, starts at start, ends at     *)
(* end, and consecutive cells differ by (sign(dr), sign(dc)).  The four     *)
(* examples of the specification are among the cases.                       *)

sign(x) == IF x > 0 THEN 1 ELSE IF x < 0 THEN -1 ELSE 0

ResolvedAsSpecified(start, end_, path) ==
    LET dr == end_[1] - start[1]
        dc == end_[2] - start[2]
    IN /\ path = <<>> <=> (dr # 0 /\ dc # 0 /\ abs(dr) # abs(dc))
       /\ path # <<>> =>
              /\ Len(path) = max(abs(dr), abs(dc)) + 1
              /\ path[1] = start
              /\ path[Len(path)] = end_
              /\ \A k \in 1..(Len(path) - 1) :
                     /\ path[k + 1][1] - path[k][1] = sign(dr)
                     /\ path[k + 1][2] - path[k][2] = sign(dc)

PathExample(start, end_, path) ==
    (selection_start = start /\ selection_end = end_)
        => selected_positions = path

C8_PathResolver ==
    (path_pc = "returned" /\ selection_start # None /\ selection_end # None)
    => /\ ResolvedAsSpecified(selection_start, selection_end,
                              selected_positions)
       /\ PathExample(<<2, 2>>, <<2, 5>>,
                      << <<2, 2>>, <<2, 3>>, <<2, 4>>, <<2, 5>> >>)
       /\ PathExample(<<0, 0>>, <<3, 3>>,
                      << <<0, 0>>, <<1, 1>>, <<2, 2>>, <<3, 3>> >>)
       /\ PathExample(<<0, 0>>, <<3, 2>>, <<>>)
       /\ PathExample(<<4, 4>>, <<4, 4>>, << <<4, 4>> >>)

\* The resolver has returned the anti-diagonal from (0,3) to (3,0).
C8_Witness ==
    /\ path_pc = "returned"
    /\ selection_start = <<0, 3>> /\ selection_end = <<3, 0>>
    /\ selected_positions = << <<0, 3>>, <<1, 2>>, <<2, 1>>, <<3, 0>> >>

-----------------------------------------------------------------------------
(* C9  search(pattern, text) returns, ascending and without duplicates,     *)
(* exactly the indices i with text[i .. i + len(pattern)) = pattern,        *)
(* whatever the hashes; the empty list when the pattern is empty, the text  *)
(* is empty, or the pattern is longer than the text.  The stepwise call and *)
(* the function search agree.                                               *)

\* The 0-based indices where the pattern occurs in the text.
Occurrences(p, t) ==
    {i \in 0..(Len(t) - Len(p)) : SubSeq(t, i + 1, i + Len(p)) = p}

C9_SearchExact ==
    rk_pc = "returned" =>
        /\ \A a, b \in 1..Len(matches) : a < b => matches[a] < matches[b]
        /\ {matches[k] : k \in 1..Len(matches)} =
               IF pattern = <<>> \/ text = <<>> \/ Len(pattern) > Len(text)
               THEN {} ELSE Occurrences(pattern, text)
        /\ matches = search(pattern, text)

\* A returned call whose text has a window with the hash of the pattern and
\* other characters, which is left out of the result.
C9_Witness ==
    /\ rk_pc = "returned"
    /\ \E i \in 0..(Len(text) - Len(pattern)) :
          LET w == SubSeq(text, i + 1, i + Len(pattern))
          IN /\ w # pattern
             /\ _hash(w, Len(w)) = _hash(pattern, Len(pattern))
             /\ \A k \in 1..Len(matches) : matches[k] # i

-----------------------------------------------------------------------------
(* C12  Placement count bound: after generate() the word list has at most   *)
(* word_count entries and at most as many as the sample drawn, which has    *)
(* min(word_count, number of entries of the word source) entries; while the *)
(* words are placed the list is shorter than the number of sampled words    *)
(* taken up so far.                                                         *)

\* n is at most word_count and at most the number of entries of the source.
WithinSample(n) == n <= word_count /\ n <= Len(word_list)

C12_PlacementCountBound ==
    /\ pc = "placing" =>
           /\ WithinSample(Len(selected_words))
           /\ Len(selected_words) \in {word_count, Len(word_list)}
           /\ Len(placed_words) < word_index
    /\ Ready => WithinSample(Len(get_word_list))

\* A ready grid whose source has fewer entries than word_count asks for,
\* all of them listed.
C12_Witness ==
    /\ Ready
    /\ Len(word_list) < word_count
    /\ Len(get_word_list) = Len(word_list)
    /\ Len(get_word_list) > 0

-----------------------------------------------------------------------------
(* C20  One recorded path per listed word: after generate() the entries of  *)
(* the word list are pairwise distinct, the position index has exactly one  *)
(* key per entry, and is_word_at_positions accepts the coordinate list of   *)
(* every placement committed during the generation.                        *)

C20_OnePathPerListedWord ==
    Ready =>
        /\ \A a, b \in 1..Len(get_word_list) :
              a # b => get_word_list[a] # get_word_list[b]
        /\ DOMAIN word_positions =
               {get_word_list[k] : k \in 1..Len(get_word_list)}
        /\ Cardinality(DOMAIN word_positions) = Len(get_word_list)
        /\ \A k \in 1..Len(committed) : is_word_at_positions(committed[k])

-----------------------------------------------------------------------------
(* C11  Configuration errors are fatal: a grid constructed with size <= 0,  *)
(* with an empty word source or with word_count <= 0 never gets to the      *)
(* ready state.                                                             *)

ConfigurationError == size <= 0 \/ word_list = <<>> \/ word_count <= 0

C11_ConfigErrorsFatal == ConfigurationError => ~Ready

-----------------------------------------------------------------------------
(* C13  Out-of-bounds point queries: in a generated grid, whatever was      *)
(* marked found or incorrect, for every cell outside the grid get_letter    *)
(* returns None and is_position_found and is_position_incorrect return      *)
(* False.  (None of the three indexes the grid outside its bounds, so none  *)
(* raises.)                                                                 *)

\* The cells outside the grid the queries are made for.
OutsidePoints == (Region(size) \cup ApiCells) \ (Rows \X Rows)

C13_OutOfBoundsPointQueries ==
    Ready =>
        \A p \in OutsidePoints :
            /\ get_letter(p[1], p[2]) = None
            /\ ~is_position_found(p[1], p[2])
            /\ ~is_position_incorrect(p[1], p[2])

-----------------------------------------------------------------------------
(* C14  Incorrect-mark expiry: is_position_incorrect(p) at time now is true *)
(* exactly when p was last marked incorrect at a time t with                *)
(* now - t <= 500 ms; a query removes from the incorrect map every entry    *)
(* older than 500 ms, whichever coordinate is queried, and no other entry;  *)
(* nothing else removes an entry or changes a stamp.                        *)

\* p was marked incorrect, the last time no more than 500 ms ago.
MarkedLately(p) == p \in DOMAIN stamped /\ now - stamped[p] <= 500

\* The entries of the incorrect map no older than 500 ms.
YoungEntries ==
    [q \in {p \in DOMAIN incorrect_positions :
                now - incorrect_positions[p] <= 500} |->
        incorrect_positions[q]]

C14_IncorrectMarkExpiry ==
    Ready =>
        /\ \A p \in ApiCells \cup (Rows \X Rows) :
              is_position_incorrect(p[1], p[2]) <=> MarkedLately(p)
        /\ purged = YoungEntries
        /\ \A p \in DOMAIN stamped :
              MarkedLately(p) =>
                  /\ p \in DOMAIN incorrect_positions
                  /\ incorrect_positions[p] = stamped[p]
        /\ \A p \in DOMAIN incorrect_positions :
              p \in DOMAIN stamped /\ incorrect_positions[p] = stamped[p]

\* A query has removed an entry older than 500 ms and has kept another
\* coordinate's entry, which is exactly 500 ms old and still reported.
C14_Witness ==
    /\ Ready
    /\ \E p, q \in DOMAIN stamped :
          /\ now - stamped[q] > 500
          /\ q \notin DOMAIN incorrect_positions
          /\ now - stamped[p] = 500
          /\ p \in DOMAIN incorrect_positions
          /\ is_position_incorrect(p[1], p[2])
          /\ ~is_position_incorrect(q[1], q[2])

-----------------------------------------------------------------------------
(* C15  Idempotent found-marking: after mark_word_found(P) every coordinate *)
(* of P is found, and a second mark_word_found(P) leaves the found set as   *)
(* the first call left it.                                                  *)

C15_IdempotentFoundMarking ==
    [][\A P \in ApiLists :
          MarkWordFound(P) =>
              /\ \A k \in 1..Len(P) : is_position_found(P[k][1], P[k][2])'
              /\ mark_word_found(P)' = found_positions']_vars

\* Two coordinates have been marked found, one of them found before the
\* other.
C15_Witness ==
    /\ Ready
    /\ Cardinality(found_positions) >= 2

-----------------------------------------------------------------------------
(* C16  Grid immutability after generation: once generate() has returned,   *)
(* no mark and no query changes a letter of the grid, the word list, the    *)
(* position index or any other field but the found set and the incorrect    *)
(* map.                                                                     *)

C16_GridImmutable == [][Ready => UNCHANGED generated]_vars

\* A generated grid with a listed word in which coordinates were marked
\* found, marked incorrect and removed from the incorrect map again.
C16_Witness ==
    /\ Ready
    /\ Len(get_word_list) = 1
    /\ found_positions # {}
    /\ incorrect_positions # <<>>
    /\ DOMAIN incorrect_positions # DOMAIN stamped

-----------------------------------------------------------------------------
(* C18  contains_unwanted_pattern(text) is true exactly when the uppercase  *)
(* form of text contains one of the eight denylisted words as a contiguous  *)
(* substring; it is false for every text shorter than 3 characters.         *)

C18_ContainsAnyUnwanted ==
    rk_pc = "unwanted_returned" =>
        /\ rk_result <=> ContainsDenylisted(upper(text))
        /\ Len(text) < 3 => ~rk_result
        /\ rk_result <=>
               \E k \in 1..Len(unwanted_patterns) :
                   Occurrences(unwanted_patterns[k], upper(text)) # {}

\* The call has returned True for a text that holds a denylisted word in
\* lowercase after another character.
C18_Witness ==
    /\ rk_pc = "unwanted_returned"
    /\ rk_result
    /\ Len(text) > 3
    /\ ~ContainsDenylisted(text)
    /\ ContainsDenylisted(upper(SubSeq(text, 2, Len(text))))

-----------------------------------------------------------------------------
(* C17: the found set in gameplay.  In every PLAYING state the found set is *)
(* the union of the recorded coordinate lists of the words confirmed so far *)
(* in the level; no step within a level removes a coordinate from it; and   *)
(* it is empty when a level is started and when its play begins.            *)

\* The cells of the coordinate list recorded for a word.
recorded_cells(word) ==
    {word_positions[word][k] : k \in 1..Len(word_positions[word])}

FoundIsUnionOfConfirmed ==
    state = "PLAYING" =>
        found_positions = UNION {recorded_cells(word) : word \in confirmed}

FoundGrowsWithinLevel ==
    current_level' = current_level => found_positions \subseteq found_positions'

FoundEmptyAtLevelStart ==
    /\ current_level' # current_level => found_positions' = {}
    /\ (state # "PLAYING" /\ state' = "PLAYING") => found_positions' = {}

C17_FoundState ==
    /\ []FoundIsUnionOfConfirmed
    /\ [][FoundGrowsWithinLevel /\ FoundEmptyAtLevelStart]_vars

\* The second level is being played, one of its two words is confirmed and
\* its cells are found.
C17_Witness ==
    /\ state = "PLAYING"
    /\ current_level = 2
    /\ Len(placed_words) = 2
    /\ Cardinality(confirmed) = 1
    /\ found_positions # {}

-----------------------------------------------------------------------------
(* C19: every level can be completed.  Once the recorded path of every      *)
(* entry of get_word_list() has been selected in PLAYING, every entry being *)
(* confirmed by its selection, the game is in LEVEL_COMPLETE; this covers   *)
(* the grids whose word list has a repeated entry and the grids without a   *)
(* word.  The game leaves PLAYING only inside the handler of a selection,   *)
(* so a PLAYING state with every entry confirmed is one the selections of   *)
(* the recorded paths do not leave.                                         *)

EveryEntryConfirmed ==
    \A k \in 1..Len(placed_words) : placed_words[k] \in confirmed

C19_LevelCompletable ==
    (state = "PLAYING" /\ game_pc = "idle" /\ ~selecting)
        => ~EveryEntryConfirmed

-----------------------------------------------------------------------------
(* C21: a source word that contains a denylisted word, read forward or      *)
(* backward, is never placed: no entry of the word list contains one of the *)
(* eight denylisted words as a substring of the entry or of its reverse, in *)
(* the ready grid and in every state before it.                             *)

FreeOfDenylisted(word) ==
    ~ContainsDenylisted(word) /\ ~ContainsDenylisted(reversed(word))

C21_DenylistedNeverPlaced ==
    /\ \A k \in 1..Len(get_word_list) : FreeOfDenylisted(get_word_list[k])
    /\ \A word \in DOMAIN word_positions : FreeOfDenylisted(word)

\* A ready grid for which NOT and TON were sampled with BAT, and BAT alone is
\* listed.
C21_Witness ==
    /\ Ready
    /\ In(NOT, word_list) /\ In(TON, word_list)
    /\ get_word_list = <<BAT>>
    /\ DOMAIN word_positions = {BAT}

-----------------------------------------------------------------------------
(* C23: letters are never overwritten during generation.  From the          *)
(* initialized grid to the ready grid, a cell that holds a letter holds the *)
(* same letter after every step; a step of the placement loop changes cells *)
(* of the coordinate list it commits and no other; the fill step changes    *)
(* empty cells only.                                                        *)

Generating == pc \in {"sample", "placing", "fill"}

LettersKept ==
    \A row \in Rows, col \in Rows :
        grid[row][col] # EMPTY => grid'[row][col] = grid[row][col]

\* The cells whose content the step changes.
Rewritten == {p \in Rows \X Rows : grid'[p[1]][p[2]] # grid[p[1]][p[2]]}

CommitsOnly ==
    pc' = "placing" =>
        \/ Rewritten = {}
        \/ /\ Len(committed') = Len(committed) + 1
           /\ Rewritten \subseteq
                  {committed'[Len(committed')][k] :
                      k \in 1..Len(committed'[Len(committed')])}

C23_LettersNeverOverwritten ==
    [][Generating => (LettersKept /\ CommitsOnly)]_vars

\* A ready grid with two committed placements that share a cell.
C23_Witness ==
    /\ Ready
    /\ Len(committed) = 2
    /\ committed[1] # committed[2]
    /\ \E j \in 1..Len(committed[1]), k \in 1..Len(committed[2]) :
           committed[1][j] = committed[2][k]

-----------------------------------------------------------------------------
(* C24: denylist-free grid before fill.  In every state of the placement    *)
(* phase, from the initialized grid to the state in which the fill step is  *)
(* about to run, no sequence of consecutive non-empty cells along one of    *)
(* the 8 directions spells a denylisted word.                               *)

\* Every sequence of consecutive non-empty cells along d is a substring of
\* the run read from its first cell.
DenylistFree(g) ==
    \A k \in 1..Len(directions), row \in Rows, col \in Rows :
        ~ContainsDenylisted(
            run_text(g, row, col, directions[k][1], directions[k][2]))

C24_DenylistFreeBeforeFill == Generating => DenylistFree(grid)

\* A word that holds no denylisted word in either direction is about to be
\* attempted, and one of the placements that fit without a letter conflict
\* would spell a denylisted word together with the letters already there.
C24_Witness ==
    /\ pc = "placing" /\ keep_trying
    /\ FreeOfDenylisted(current_word)
    /\ Len(committed) > 0
    /\ \E row \in Rows, col \in Rows, k \in 1..Len(directions) :
           /\ fits(current_word, row, col, directions[k])
           /\ ~conflicts(current_word, row, col, directions[k])
           /\ ~DenylistFree(with_word(grid, current_word, row, col,
                                      directions[k]))

-----------------------------------------------------------------------------
(* C25: rolling-hash consistency.  While search(pattern, text) runs its     *)
(* loop and when it returns from it, the hash it holds is the hash of the   *)
(* window it has just compared, text[i .. i + L) with L = len(pattern),     *)
(* computed directly, and the hash is in 0..prime-1.                        *)

\* The start (0-based) of the window the held hash belongs to: the loop
\* variable has been advanced past it.
held_window == rk_i - 1

WindowHashed ==
    rk_pc = "loop" \/ (rk_pc = "returned" /\ ~search_rejects(pattern, text))

C25_RollingHashConsistent ==
    WindowHashed =>
        /\ held_window \in 0..(Len(text) - Len(pattern))
        /\ text_hash =
               _hash(SubSeq(text, held_window + 1, held_window + Len(pattern)),
                     Len(pattern))
        /\ text_hash \in 0..(prime - 1)

\* The hash has been rolled twice, over windows that differ from the first,
\* and the subtraction of the leading character went below zero.
C25_Witness ==
    /\ rk_pc = "loop" /\ rk_i = 3
    /\ Len(pattern) >= 2
    /\ SubSeq(text, 3, 2 + Len(pattern)) # SubSeq(text, 1, Len(pattern))
    /\ _hash(SubSeq(text, 2, 1 + Len(pattern)), Len(pattern))
           < ord(text[2]) * pow(base, Len(pattern) - 1, prime)

-----------------------------------------------------------------------------
(* C26: the selection is cleared after it is checked.  Every step that ends *)
(* a selection gesture in PLAYING (selecting goes from true to false)       *)
(* leaves selection_start and selection_end both None.                      *)

GestureEnds == state = "PLAYING" /\ selecting /\ ~selecting'

C26_SelectionCleared ==
    [][GestureEnds => (selection_start' = None /\ selection_end' = None)]_vars

-----------------------------------------------------------------------------
(* C27: a selection that does not verify changes no progress.  When a       *)
(* gesture ends on a straight path inside the grid that is_word_at_positions*)
(* rejects, found_words and the found set stay as they were and the         *)
(* incorrect map changes at the cells of the path and nowhere else, each    *)
(* of them getting the current time; when it ends on an empty path,         *)
(* found_words, the found set and the incorrect map stay as they were.      *)

PathCells == {_get_selection_path[k] : k \in 1..Len(_get_selection_path)}

RejectedSelection ==
    /\ _get_selection_path # <<>>
    /\ selection_in_grid(_get_selection_path)
    /\ ~is_word_at_positions(_get_selection_path)

StampsExactlyPath ==
    /\ DOMAIN incorrect_positions' = DOMAIN incorrect_positions \cup PathCells
    /\ \A q \in PathCells : incorrect_positions'[q] = now
    /\ \A q \in DOMAIN incorrect_positions \ PathCells :
           incorrect_positions'[q] = incorrect_positions[q]

NoProgress == found_words' = found_words /\ found_positions' = found_positions

C27_RejectedSelection ==
    [][GestureEnds =>
          /\ RejectedSelection => (NoProgress /\ StampsExactlyPath)
          /\ _get_selection_path = <<>> =>
                 (NoProgress /\ incorrect_positions' = incorrect_positions)]_vars

\* A rejected two-cell selection has left its stamps, and a gesture between
\* two cells that are not in line has ended since.
C27_Witness ==
    /\ state = "PLAYING" /\ ~selecting
    /\ Cardinality(DOMAIN incorrect_positions) >= 2
    /\ selection_start # None /\ selection_end # None
    /\ _get_selection_path = <<>>

-----------------------------------------------------------------------------
(* C22: every game starts from a clean slate.  At each step from NAME_INPUT *)
(* to PLAYING total_score is 0 and level_scores and level_completion_times  *)
(* are empty.                                                               *)

C22_CleanSlate ==
    [][(state = "NAME_INPUT" /\ state' = "PLAYING") =>
          /\ total_score' = 0
          /\ level_scores' = <<>>
          /\ level_completion_times' = <<>>]_vars

-----------------------------------------------------------------------------
(* C28: level progression.  A level is started either from NAME_INPUT, with *)
(* a name that is not blank, as level 1, or from LEVEL_COMPLETE at a level  *)
(* k < 5, as level k + 1; until generate() has returned the level and the   *)
(* name stay and the state stays or becomes PLAYING; PLAYING is entered     *)
(* only at the end of _start_level, from NAME_INPUT or LEVEL_COMPLETE;      *)
(* GAME_COMPLETE is entered only from LEVEL_COMPLETE at level 5;            *)
(* current_level is always in 1..5; in PLAYING the grid is generated.       *)

LevelStarts == game_pc = "idle" /\ game_pc' = "start_level"

StartsInOrder ==
    LevelStarts =>
        \/ /\ state = "NAME_INPUT" /\ strip(player_name) # <<>>
           /\ current_level' = 1
        \/ /\ state = "LEVEL_COMPLETE" /\ current_level \in 1..(max_level - 1)
           /\ current_level' = current_level + 1

StartRunsThrough ==
    game_pc = "start_level" =>
        /\ current_level' = current_level /\ player_name' = player_name
        /\ state' = state \/ (state' = "PLAYING" /\ pc = "ready")

PlayingEntered ==
    (state # "PLAYING" /\ state' = "PLAYING") =>
        /\ game_pc = "start_level"
        /\ state \in {"NAME_INPUT", "LEVEL_COMPLETE"}
        /\ state = "NAME_INPUT" <=> current_level' = 1

GameCompleteEntered ==
    (state # "GAME_COMPLETE" /\ state' = "GAME_COMPLETE") =>
        state = "LEVEL_COMPLETE" /\ current_level = max_level

C28_LevelProgression ==
    /\ [](current_level \in 1..max_level)
    /\ [](state = "PLAYING" => pc = "ready")
    /\ [][StartsInOrder /\ StartRunsThrough /\ PlayingEntered
             /\ GameCompleteEntered]_vars

\* The fifth level has been completed and the game with it.
C28_Witness ==
    /\ state = "GAME_COMPLETE" /\ current_level = max_level
    /\ Len(level_completion_times) = max_level

-----------------------------------------------------------------------------
(* C29: the rank shown on the game-complete screen is the rank saved to the *)
(* leaderboard: in GAME_COMPLETE the rank draw() computes is the rank       *)
(* _complete_game passed to add_score.                                      *)

C29_ShownRankIsSavedRank ==
    state = "GAME_COMPLETE" => drawn_rank = passed_rank

-----------------------------------------------------------------------------
(* C30: leaderboard ordering and cap.  After any sequence of add_score      *)
(* calls on a leaderboard that started empty, the list has at most 100      *)
(* entries, is ordered by non-increasing score with equal scores in the     *)
(* order S, A, B, C, D of their ranks, and consists of the best             *)
(* min(100, n) of the n entries added so far; get_top_scores(k) is the list *)
(* of its first k entries.                                                  *)

rank_order == <<"S", "A", "B", "C", "D">>
place(rank) == CHOOSE k \in 1..Len(rank_order) : rank_order[k] = rank

\* Entry a comes before entry b in the order of the leaderboard.
Better(a, b) ==
    a.score > b.score \/ (a.score = b.score /\ place(a.rank) < place(b.rank))

Ordered ==
    \A i \in 1..(Len(scores) - 1) : ~Better(scores[i + 1], scores[i])

\* How often the entry is in the list.
listed(e) == Cardinality({i \in 1..Len(scores) : scores[i] = e})

BestOfAdded ==
    /\ Len(scores) = min(100, adds)
    /\ {scores[i] : i \in 1..Len(scores)} \subseteq DOMAIN added
    /\ \A e \in DOMAIN added :
           LET n == listed(e)
           IN /\ n <= added[e]
              /\ n < added[e] =>
                     \A i \in 1..Len(scores) : ~Better(e, scores[i])

TopLimits == {0, 10, 101}

TopScoresArePrefix ==
    \A k \in TopLimits :
        get_top_scores(k) = [i \in 1..min(k, Len(scores)) |-> scores[i]]

C30_LeaderboardOrderAndCap ==
    /\ Len(scores) <= 100
    /\ Ordered
    /\ BestOfAdded
    /\ TopScoresArePrefix

\* More than 100 entries have been added, of three kinds, and an entry of
\* the worst kind was left out while the best kinds are all listed.
C30_Witness ==
    /\ adds > 100
    /\ Cardinality(DOMAIN added) = 3
    /\ \E e \in DOMAIN added : listed(e) < added[e]
    /\ \E e \in DOMAIN added : listed(e) = added[e] /\ e.rank = "D"


=============================================================================
